---- MODULE Spec2Model ----
(***************************************************************************)
(* A model of the Bambu Studio 3MF import/export add-on.                   *)
(*                                                                         *)
(*   core/parser.py      parse_3mf and its helpers                         *)
(*   core/builder.py     build_scene (parse result -> scene objects)       *)
(*   core/metadata.py    custom properties stored on objects/collections   *)
(*   core/serializer.py  export_3mf, id allocation, stale-reference        *)
(*                       cleanup, default plates, the written XML parts    *)
(*                                                                         *)
(* XML parts are modelled by their structure (the elements and attribute   *)
(* values the writer emits and the parser reads); attribute values are     *)
(* strings, and int()/str() are modelled by StrToInt/IntToStr.             *)
(***************************************************************************)
EXTENDS Integers, Sequences, FiniteSets, TLC

VARIABLES
    scene,      \* the host scene: root objects in scene order, each with its children
    colls,      \* bpy.data.collections: the round-trip blobs stored per import
    outFile,    \* the container at the export filepath
    opResult,   \* what the last operator call returned
    hist,       \* bookkeeping of the session (what was imported, added, removed)
    cl,         \* the cleanup functions applied to their own output
    call        \* one call of the parser or of a codec function, step by step

vars == <<scene, colls, outFile, opResult, hist, cl, call>>

(***************************************************************************)
(* Bounds of the model.                                                    *)
(***************************************************************************)
MaxPlates == 2
MaxEntries == 2
MaxImports == 1
MaxNewMeshes == 2
\* the objects a user deletes in one session
MaxRemovals == 2

(***************************************************************************)
(* Generic helpers.                                                        *)
(***************************************************************************)
SeqsUpTo(S, n) == UNION {[1..k -> S] : k \in 0..n}

Range(s) == {s[i] : i \in DOMAIN s}

\* dict.get(k, default)
Get(d, k, default) == IF k \in DOMAIN d THEN d[k] ELSE default

\* d[k] = v on a copy of d
DictSet(d, k, v) == [x \in DOMAIN d \cup {k} |-> IF x = k THEN v ELSE d[x]]

RECURSIVE Concat(_)
Concat(ss) == IF ss = <<>> THEN <<>> ELSE Head(ss) \o Concat(Tail(ss))

RECURSIVE SumSeq(_)
SumSeq(s) == IF s = <<>> THEN 0 ELSE Head(s) + SumSeq(Tail(s))

Digit == <<"0", "1", "2", "3", "4", "5", "6", "7", "8", "9">>

\* str(n) of a non-negative int
RECURSIVE IntToStr(_)
IntToStr(n) ==
    IF n < 10 THEN Digit[n + 1]
    ELSE IntToStr(n \div 10) \o Digit[(n % 10) + 1]

\* the decimal strings of the ints the model meets
Decimal == [n \in 0..199 |-> IntToStr(n)]

\* int(s) of a decimal string
StrToInt(s) == CHOOSE n \in DOMAIN Decimal : Decimal[n] = s

(***************************************************************************)
(* Stale reference cleanup (serializer.py, "deleted objects").             *)
(***************************************************************************)
\* A renumbering that starts at 0.
RenumberFromZero(cleaned) ==
    [i \in DOMAIN cleaned |->
        [cleaned[i] EXCEPT !.metadata =
            DictSet(cleaned[i].metadata, "index", IntToStr(i - 1))]]

\* the renumbering loop of both plate cleanups
Renumber(cleaned) ==
    [i \in DOMAIN cleaned |->
        [cleaned[i] EXCEPT !.metadata =
            DictSet(cleaned[i].metadata, "index", IntToStr(i))]]

\* A cleanup that numbers each surviving plate by its place in the input list.
CleanStalePlatesInputPos(ms_plates, valid_object_ids) ==
    LET Kept(plate) == SelectSeq(plate.instances,
                           LAMBDA inst : Get(inst, "object_id", "") \in valid_object_ids)
        numbered == [i \in DOMAIN ms_plates |->
                        [metadata |-> DictSet(ms_plates[i].metadata, "index", IntToStr(i)),
                         instances |-> Kept(ms_plates[i])]]
    IN  SelectSeq(numbered, LAMBDA p : p.instances # <<>>)

_clean_stale_plates(ms_plates, valid_object_ids) ==
    IF ms_plates = <<>> THEN ms_plates
    ELSE
        LET Kept(plate) == SelectSeq(plate.instances,
                               LAMBDA inst : Get(inst, "object_id", "") \in valid_object_ids)
            filtered == [i \in DOMAIN ms_plates |->
                            [ms_plates[i] EXCEPT !.instances = Kept(ms_plates[i])]]
            cleaned == SelectSeq(filtered, LAMBDA p : p.instances # <<>>)
        IN  Renumber(cleaned)

\* A cleanup of the assemble list that filters nothing.
CleanStaleAssembleKeepAll(ms_assemble, valid_object_ids) == ms_assemble

_clean_stale_assemble(ms_assemble, valid_object_ids) ==
    IF ms_assemble = <<>> THEN ms_assemble
    ELSE SelectSeq(ms_assemble,
             LAMBDA item : Get(item, "object_id", "") \in valid_object_ids)

\* A slice-plate cleanup that keeps a plate as soon as the input plate had objects.
CleanStaleSlicePlatesKeepEmptied(plates_json, valid_names) ==
    LET Kept(plate) == SelectSeq(plate.objects,
                           LAMBDA obj : Get(obj, "name", "") \in valid_names)
        cleaned == SelectSeq(plates_json, LAMBDA p : p.objects # <<>>)
    IN  Renumber([i \in DOMAIN cleaned |->
                     [cleaned[i] EXCEPT !.objects = Kept(cleaned[i])]])

_clean_stale_slice_plates(plates_json, valid_names) ==
    IF plates_json = <<>> THEN plates_json
    ELSE
        LET Kept(plate) == SelectSeq(plate.objects,
                               LAMBDA obj : Get(obj, "name", "") \in valid_names)
            filtered == [i \in DOMAIN plates_json |->
                            [plates_json[i] EXCEPT !.objects = Kept(plates_json[i])]]
            cleaned == SelectSeq(filtered, LAMBDA p : p.objects # <<>>)
        IN  Renumber(cleaned)

(***************************************************************************)
(* The cleanup functions on bounded inputs: every list of at most          *)
(* MaxPlates plates with at most MaxEntries entries each, an entry naming  *)
(* a key that may or may not be valid, or no key at all.  Each entry       *)
(* carries its place in the input as identify_id, so entries are told      *)
(* apart.                                                                  *)
(***************************************************************************)
NoKey == "<no key>"
IdKeys == {"1", NoKey}
NameKeys == {"Cube", NoKey}
ValidIdSets == SUBSET {"1", "2"}
ValidNameSets == SUBSET {"Cube", "Lid"}
IndexChoices == {"2", NoKey}

PlateShapes(keys) == [idx : IndexChoices, keys : SeqsUpTo(keys, MaxEntries)]

Tag(i, j) == IntToStr(10 * i + j)

MkMeta(idx) ==
    IF idx = NoKey THEN [locked |-> "false"]
    ELSE [index |-> idx, locked |-> "false"]

MkInstance(k, tag) ==
    IF k = NoKey THEN [instance_id |-> "0", identify_id |-> tag]
    ELSE [object_id |-> k, instance_id |-> "0", identify_id |-> tag]

MkAssembleItem(k, tag) ==
    IF k = NoKey THEN [instance_id |-> tag, transform |-> "", offset |-> ""]
    ELSE [object_id |-> k, instance_id |-> tag, transform |-> "", offset |-> ""]

MkSliceObject(k, tag) ==
    IF k = NoKey THEN [identify_id |-> tag, skipped |-> FALSE]
    ELSE [name |-> k, identify_id |-> tag, skipped |-> FALSE]

MkMsPlates(shapes) ==
    [i \in DOMAIN shapes |->
        [metadata |-> MkMeta(shapes[i].idx),
         instances |-> [j \in DOMAIN shapes[i].keys |->
                           MkInstance(shapes[i].keys[j], Tag(i, j))]]]

MkSlicePlates(shapes) ==
    [i \in DOMAIN shapes |->
        [index |-> IF shapes[i].idx = NoKey THEN 0 ELSE StrToInt(shapes[i].idx),
         metadata |-> MkMeta(shapes[i].idx),
         objects |-> [j \in DOMAIN shapes[i].keys |->
                         MkSliceObject(shapes[i].keys[j], Tag(i, j))],
         filaments |-> <<>>]]

MkAssemble(keys) == [j \in DOMAIN keys |-> MkAssembleItem(keys[j], Tag(0, j))]

\* no call under way
CallIdle == [op |-> "none"]

ClIdle == [fn |-> "none", in |-> <<>>, valid |-> {}, out |-> <<>>, prev |-> <<>>, step |-> 0]

\* the argument of the next application: the input first, then the last output
ClArg == IF cl.step = 0 THEN cl.in ELSE cl.out

SessionIdle ==
    /\ scene = <<>>
    /\ colls = <<>>
    /\ outFile = [present |-> FALSE]
    /\ opResult = "NONE"
    /\ hist = [imports |-> 0, added |-> 0, removed |-> FALSE, removals |-> 0, exported |-> FALSE,
               src |-> [present |-> FALSE], source |-> <<>>]
    /\ call = CallIdle

ClStart(fn, in, valid) ==
    cl = [fn |-> fn, in |-> in, valid |-> valid, out |-> <<>>, prev |-> <<>>, step |-> 0]

InitClean ==
    /\ SessionIdle
    /\ \/ \E k \in 0..MaxPlates : \E sh \in [1..k -> PlateShapes(IdKeys)] :
              \E v \in ValidIdSets : ClStart("plates", MkMsPlates(sh), v)
       \/ \E k \in 0..MaxEntries : \E ks \in [1..k -> IdKeys] :
              \E v \in ValidIdSets : ClStart("assemble", MkAssemble(ks), v)
       \/ \E k \in 0..MaxPlates : \E sh \in [1..k -> PlateShapes(NameKeys)] :
              \E v \in ValidNameSets : ClStart("slice", MkSlicePlates(sh), v)

CleanPlates ==
    /\ cl.fn = "plates"
    /\ cl.step < 2
    /\ cl' = [cl EXCEPT !.out = _clean_stale_plates(ClArg, cl.valid),
                        !.prev = cl.out, !.step = cl.step + 1]
    /\ UNCHANGED <<scene, colls, outFile, opResult, hist, call>>

CleanAssemble ==
    /\ cl.fn = "assemble"
    /\ cl.step < 2
    /\ cl' = [cl EXCEPT !.out = _clean_stale_assemble(ClArg, cl.valid),
                        !.prev = cl.out, !.step = cl.step + 1]
    /\ UNCHANGED <<scene, colls, outFile, opResult, hist, call>>

CleanSlicePlates ==
    /\ cl.fn = "slice"
    /\ cl.step < 2
    /\ cl' = [cl EXCEPT !.out = _clean_stale_slice_plates(ClArg, cl.valid),
                        !.prev = cl.out, !.step = cl.step + 1]
    /\ UNCHANGED <<scene, colls, outFile, opResult, hist, call>>

NextClean == CleanPlates \/ CleanAssemble \/ CleanSlicePlates

SpecClean == InitClean /\ [][NextClean]_vars

(***************************************************************************)
(* The container.  A part path is its leading slashes and the rest;        *)
(* str.lstrip("/") drops the slashes, and the container names its parts    *)
(* without them.                                                           *)
(*                                                                         *)
(*   main.metadata  <metadata name=..>text</metadata>, in file order       *)
(*   main.objects   <object id p:UUID> with its <component>s               *)
(*   main.build     <item objectid p:UUID>                                 *)
(*   subs           zip name -> the <object>s of that sub-model part       *)
(*   rels           the Relationship targets of 3dmodel.model.rels         *)
(*   ms             Metadata/model_settings.config                         *)
(*   project        Metadata/project_settings.config ("" when absent)      *)
(***************************************************************************)
NoFile == [present |-> FALSE]

Path(slashes, rest) == [slashes |-> slashes, rest |-> rest]

\* path.lstrip("/")
ZipName(path) == path.rest

\* f"/3D/Objects/object_{assembly_id}.model"
SubPath(assembly_id) ==
    Path(1, "3D/Objects/object_" \o IntToStr(assembly_id) \o ".model")

NoMs == [present |-> FALSE, objects |-> <<>>, plates |-> <<>>, assemble |-> <<>>]

\* dict built by d[k] = v over a list of entries: a later entry replaces an
\* earlier one with the same key
LastWith(s, KeyOf(_), k) ==
    s[CHOOSE i \in DOMAIN s :
          /\ KeyOf(s[i]) = k
          /\ \A j \in DOMAIN s : KeyOf(s[j]) = k => j <= i]

(***************************************************************************)
(* parser.py                                                               *)
(***************************************************************************)
\* metadata[name] = text: keys in first-insertion order, the last value wins
RECURSIVE DictPairs(_, _)
DictPairs(pairs, seen) ==
    IF pairs = <<>> THEN <<>>
    ELSE IF Head(pairs).name \in seen THEN DictPairs(Tail(pairs), seen)
    ELSE <<Head(pairs)>> \o DictPairs(Tail(pairs), seen \cup {Head(pairs).name})

_parse_assembly(main) ==
    LET ObjId(o) == StrToInt(o.id)
        ids == {ObjId(main.objects[i]) : i \in DOMAIN main.objects}
        Obj(o) == [id |-> ObjId(o), uuid |-> o.uuid, name |-> "", extruder |-> 1,
                   components |-> [c \in DOMAIN o.components |->
                       [path |-> o.components[c].path,
                        objectid |-> StrToInt(o.components[c].objectid),
                        uuid |-> o.components[c].uuid]]]
        firsts == DictPairs(main.metadata, {})
    IN  [metadata |-> [i \in DOMAIN firsts |->
                          [name |-> firsts[i].name,
                           value |-> LastWith(main.metadata,
                                              LAMBDA m : m.name, firsts[i].name).value]],
         objects |-> [id \in ids |-> Obj(LastWith(main.objects, ObjId, id))],
         build_items |-> [i \in DOMAIN main.build |->
                             [objectid |-> StrToInt(main.build[i].objectid),
                              uuid |-> main.build[i].uuid]]]

\* A sub-model parser that stops after the first mesh.
ParseSubModelFirstOnly(part) ==
    LET withMesh == {j \in DOMAIN part : part[j].mesh}
    IN  {StrToInt(part[i].id) : i \in {j \in withMesh : \A k \in withMesh : j <= k}}

\* the (object id) of every <object> with a <mesh> in one sub-model part
_parse_sub_model(part) ==
    {StrToInt(part[i].id) : i \in {j \in DOMAIN part : part[j].mesh}}

_parse_model_settings_plates(ms) ==
    IF ~ms.present THEN [plates |-> <<>>, assemble |-> <<>>]
    ELSE [plates |-> ms.plates, assemble |-> ms.assemble]

parse_3mf(f) ==
    LET asm == _parse_assembly(f.main)
        sub_paths == UNION {{asm.objects[id].components[c].path :
                                c \in DOMAIN asm.objects[id].components} :
                            id \in DOMAIN asm.objects}
        meshes == UNION {{<<path, obj_id>> : obj_id \in _parse_sub_model(f.subs[ZipName(path)])} :
                         path \in {q \in sub_paths : ZipName(q) \in DOMAIN f.subs}}
        extras == _parse_model_settings_plates(f.ms)
    IN  [metadata |-> asm.metadata,
         objects |-> asm.objects,
         build_items |-> asm.build_items,
         meshes |-> meshes,
         ms_plates |-> extras.plates,
         ms_assemble |-> extras.assemble,
         project_settings |-> f.project]

(***************************************************************************)
(* metadata.py and builder.py: the scene built from a parse result.        *)
(* An object is its type, its name, its custom properties (a dict) and,    *)
(* for a parent, its children in order.                                    *)
(***************************************************************************)
store_assembly_metadata(object_data, build_item) ==
    [bambu_object_id |-> object_data.id, bambu_uuid |-> object_data.uuid,
     bambu_extruder |-> Get(object_data, "extruder", 1)]

\* obj is the new mesh object (its name and the properties it has so far);
\* part_info is the <part> entry of model_settings.config, <<>> for None
store_part_metadata(obj, component, part_info) ==
    LET a == DictSet(DictSet(obj.props, "bambu_part_id", component.objectid),
                     "bambu_part_uuid", component.uuid)
    IN  IF part_info # <<>>
        THEN LET b == DictSet(DictSet(a, "bambu_part_name",
                                      Get(part_info, "name", obj.name)),
                              "bambu_subtype", Get(part_info, "subtype", "normal_part"))
             IN  IF "extruder" \in DOMAIN part_info
                 THEN DictSet(b, "bambu_extruder", part_info["extruder"])
                 ELSE b
        ELSE DictSet(a, "bambu_part_name", obj.name)

\* the custom properties the import leaves on the new collection
StoreOnCollection(data) ==
    LET base == [bambu_plates |-> <<>>]
        a == IF data.project_settings # ""
             THEN DictSet(base, "bambu_project_settings_ref", data.project_settings)
             ELSE base
        b == IF data.metadata # <<>>
             THEN DictSet(a, "bambu_model_metadata", data.metadata)
             ELSE a
        c == IF data.ms_plates # <<>>
             THEN DictSet(b, "bambu_ms_plates", data.ms_plates)
             ELSE b
    IN  IF data.ms_assemble # <<>>
        THEN DictSet(c, "bambu_ms_assemble", data.ms_assemble)
        ELSE c

\* bpy.data.objects.new(name, ...): Blender keeps object names unique by
\* appending .001, .002, ... to a name that is taken
RECURSIVE FreeName(_, _, _)
FreeName(taken, name, n) ==
    LET suffix == "." \o (IF n < 10 THEN "00" ELSE IF n < 100 THEN "0" ELSE "") \o IntToStr(n)
    IN  IF name \o suffix \notin taken THEN name \o suffix
        ELSE FreeName(taken, name, n + 1)

UniqueName(taken, name) == IF name \notin taken THEN name ELSE FreeName(taken, name, 1)

\* the names of top-level objects and their children
NamesOf(objs) ==
    {objs[i].name : i \in DOMAIN objs}
    \cup UNION {{objs[i].children[k].name : k \in DOMAIN objs[i].children} :
                i \in DOMAIN objs}

\* the child meshes of one parent, one per component that resolves to a mesh
RECURSIVE BuildChildren(_, _, _, _)
BuildChildren(components, parts_info, obj_extruder, taken) ==
    IF components = <<>> THEN <<>>
    ELSE LET comp == Head(components)
             part_info == Get(parts_info, comp.objectid, <<>>)
             part_name == IF Get(part_info, "name", "") # ""
                          THEN part_info["name"]
                          ELSE "Part_" \o IntToStr(comp.objectid)
             part_extruder == Get(part_info, "extruder", obj_extruder)
             name == UniqueName(taken, part_name)
             mesh_obj == [name |-> name,
                          props |-> [x \in {"bambu_extruder"} |-> part_extruder]]
         IN  <<[type |-> "MESH", name |-> name,
                props |-> store_part_metadata(mesh_obj, comp, part_info),
                children |-> <<>>]>>
             \o BuildChildren(Tail(components), parts_info, obj_extruder,
                              taken \cup {name})

RECURSIVE BuildObjects(_, _, _)
BuildObjects(data, built, taken) ==
    IF built = <<>> THEN <<>>
    ELSE LET bi == Head(built)
             obj_data == data.objects[bi.objectid]
             obj_name == IF Get(obj_data, "name", "") # ""
                         THEN obj_data.name
                         ELSE "Object_" \o IntToStr(bi.objectid)
             name == UniqueName(taken, obj_name)
             ms_entry == Get(Get(data, "model_settings", <<>>), bi.objectid, <<>>)
             resolved == SelectSeq(obj_data.components,
                             LAMBDA comp : <<comp.path, comp.objectid>> \in data.meshes)
             empty == [type |-> "EMPTY", name |-> name,
                       props |-> store_assembly_metadata(obj_data, bi),
                       children |-> BuildChildren(resolved, Get(ms_entry, "parts", <<>>),
                                                  Get(obj_data, "extruder", 1),
                                                  taken \cup {name})]
         IN  <<empty>>
             \o BuildObjects(data, Tail(built), taken \cup NamesOf(<<empty>>))

\* the parent Empties (with their child meshes) build_scene creates, in build
\* order; taken holds the names of the objects that exist already
build_scene(data, taken) ==
    BuildObjects(data,
                 SelectSeq(data.build_items,
                           LAMBDA bi : bi.objectid \in DOMAIN data.objects),
                 taken)

(***************************************************************************)
(* serializer.py: export_3mf                                               *)
(***************************************************************************)
\* context.scene.objects: every parent followed by its children
Flatten(objs) == Concat([i \in DOMAIN objs |-> <<objs[i]>> \o objs[i].children])

_collect_export_groups(source) ==
    LET empties == SelectSeq(source,
                       LAMBDA o : o.type = "EMPTY" /\ "bambu_object_id" \in DOMAIN o.props)
        withChildren == SelectSeq(empties,
                            LAMBDA e : SelectSeq(e.children, LAMBDA c : c.type = "MESH") # <<>>)
        meshes == SelectSeq(source, LAMBDA o : o.type = "MESH")
    IN  IF empties # <<>>
        THEN [i \in DOMAIN withChildren |->
                 [parent |-> withChildren[i],
                  children |-> SelectSeq(withChildren[i].children,
                                         LAMBDA c : c.type = "MESH")]]
        ELSE [i \in DOMAIN meshes |->
                 [parent |-> meshes[i],
                  children |-> <<[meshes[i] EXCEPT !.children = <<>>]>>]]

_find_bambu_collection(collections) ==
    LET found == SelectSeq(collections,
                     LAMBDA col : \/ "bambu_project_settings_ref" \in DOMAIN col
                                  \/ "bambu_model_metadata" \in DOMAIN col)
    IN  IF found = <<>> THEN <<>> ELSE Head(found)

\* str(uuid.uuid4()): a value no stored UUID equals, one per place of use
FreshUUID(kind, g, c) == "uuid4-" \o kind \o "-" \o IntToStr(g) \o "-" \o IntToStr(c)

\* while fallback_id in used_ids: fallback_id += 1
NextFree(fallback_id, used_ids) ==
    CHOOSE n \in fallback_id..(fallback_id + Cardinality(used_ids)) :
        /\ n \notin used_ids
        /\ \A m \in fallback_id..(n - 1) : m \in used_ids

\* the part ids of the children from position k on
RECURSIVE AllocPartIds(_, _, _, _)
AllocPartIds(mesh_objects, k, fallback_id, used_ids) ==
    IF k > Len(mesh_objects) THEN <<>>
    ELSE IF "bambu_part_id" \in DOMAIN mesh_objects[k].props
    THEN <<mesh_objects[k].props["bambu_part_id"]>>
             \o AllocPartIds(mesh_objects, k + 1, fallback_id, used_ids)
    ELSE LET part_id == NextFree(fallback_id, used_ids)
         IN  <<part_id>> \o AllocPartIds(mesh_objects, k + 1, part_id + 1,
                                         used_ids \cup {part_id})

\* A sub-model builder that does not set the stored ids aside first.
BuildSubModelNoReserve(mesh_objects, g) ==
    LET ids == AllocPartIds(mesh_objects, 1, 1, {})
    IN  [k \in DOMAIN mesh_objects |->
            [id |-> ids[k],
             uuid |-> Get(mesh_objects[k].props, "bambu_part_uuid",
                          FreshUUID("part", g, k))]]

\* the component list of one group (g: its place among the groups)
_build_sub_model(mesh_objects, g) ==
    LET used_ids == {mesh_objects[k].props["bambu_part_id"] :
                        k \in {j \in DOMAIN mesh_objects :
                                  "bambu_part_id" \in DOMAIN mesh_objects[j].props}}
        ids == AllocPartIds(mesh_objects, 1, 1, used_ids)
    IN  [k \in DOMAIN mesh_objects |->
            [id |-> ids[k],
             uuid |-> Get(mesh_objects[k].props, "bambu_part_uuid",
                          FreshUUID("part", g, k))]]

\* the <object>s written into a sub-model part
SubModelXml(component_list) ==
    [k \in DOMAIN component_list |->
        [id |-> IntToStr(component_list[k].id),
         uuid |-> component_list[k].uuid,
         mesh |-> TRUE]]

\* the assembly ids of the groups from position g on
RECURSIVE AssignAssemblyIds(_, _, _)
AssignAssemblyIds(groups, g, next_part_id) ==
    IF g > Len(groups) THEN <<>>
    ELSE IF "bambu_object_id" \in DOMAIN groups[g].parent.props
    THEN <<groups[g].parent.props["bambu_object_id"]>>
             \o AssignAssemblyIds(groups, g + 1, next_part_id)
    ELSE <<next_part_id>> \o AssignAssemblyIds(groups, g + 1, next_part_id + 1)

\* A loop that hands out the build items in the opposite order.
ExportLoopBuildReversed(groups) ==
    LET ids == AssignAssemblyIds(groups, 1, 1)
        n == Len(groups)
    IN  [g \in DOMAIN groups |->
            LET component_list == _build_sub_model(groups[g].children, g)
                sub_path == SubPath(ids[g])
            IN  [sub_path |-> sub_path,
                 component_list |-> component_list,
                 assembly |->
                     [id |-> ids[g],
                      uuid |-> Get(groups[g].parent.props, "bambu_uuid",
                                   FreshUUID("object", g, 0)),
                      components |-> [k \in DOMAIN component_list |->
                          [path |-> sub_path,
                           objectid |-> component_list[k].id,
                           uuid |-> component_list[k].uuid]]],
                 build_item |-> [objectid |-> ids[n + 1 - g],
                                 uuid |-> FreshUUID("item", g, 0)]]]

\* the loop over the groups: per group its assembly object and its build item
ExportLoop(groups) ==
    LET ids == AssignAssemblyIds(groups, 1, 1)
    IN  [g \in DOMAIN groups |->
            LET component_list == _build_sub_model(groups[g].children, g)
                sub_path == SubPath(ids[g])
            IN  [sub_path |-> sub_path,
                 component_list |-> component_list,
                 assembly |->
                     [id |-> ids[g],
                      uuid |-> Get(groups[g].parent.props, "bambu_uuid",
                                   FreshUUID("object", g, 0)),
                      components |-> [k \in DOMAIN component_list |->
                          [path |-> sub_path,
                           objectid |-> component_list[k].id,
                           uuid |-> component_list[k].uuid]]],
                 build_item |-> [objectid |-> ids[g],
                                 uuid |-> FreshUUID("item", g, 0)]]]

\* A default plate list that numbers the entries from 1.
GenerateDefaultPlatesFromOne(assembly_objects) ==
    [ms_plates |->
        <<[metadata |-> [index |-> "1", locked |-> "false"],
           instances |-> [i \in DOMAIN assembly_objects |->
               [object_id |-> IntToStr(assembly_objects[i].id),
                instance_id |-> "0",
                identify_id |-> IntToStr(i)]]]>>,
     ms_assemble |->
        [i \in DOMAIN assembly_objects |->
            [object_id |-> IntToStr(assembly_objects[i].id),
             instance_id |-> "0", transform |-> "", offset |-> ""]]]

_generate_default_plates(assembly_objects) ==
    [ms_plates |->
        <<[metadata |-> [index |-> "1", locked |-> "false"],
           instances |-> [i \in DOMAIN assembly_objects |->
               [object_id |-> IntToStr(assembly_objects[i].id),
                instance_id |-> "0",
                identify_id |-> IntToStr(i - 1)]]]>>,
     ms_assemble |->
        [i \in DOMAIN assembly_objects |->
            [object_id |-> IntToStr(assembly_objects[i].id),
             instance_id |-> "0", transform |-> "", offset |-> ""]]]

_generate_default_slice_plates(groups, assembly_objects) ==
    <<[metadata |-> [index |-> "1"],
       objects |-> [i \in DOMAIN groups |->
           [name |-> groups[i].parent.name,
            identify_id |-> IntToStr(i - 1),
            skipped |-> FALSE]],
       filaments |-> <<>>]>>

\* the <plate> sections of slice_info.config (plates_json is never empty
\* when export_3mf calls: it holds the stored plates or the default one)
_build_slice_info(groups, plates_json) ==
    [i \in DOMAIN plates_json |->
        [metadata |-> Get(plates_json[i], "metadata", <<>>),
         objects |-> [k \in DOMAIN Get(plates_json[i], "objects", <<>>) |->
             [identify_id |-> Get(plates_json[i].objects[k], "identify_id", ""),
              name |-> Get(plates_json[i].objects[k], "name", ""),
              skipped |-> IF Get(plates_json[i].objects[k], "skipped", FALSE)
                          THEN "true" ELSE "false"]]]]

\* get_bambu_version_string() with no Bambu Studio installed
HostVersion == "BambuStudio-02.00.00.00"

\* A main model that writes the stored metadata where it stood.
BuildMainModelMetadataInPlace(assembly_objects, build_items, model_metadata) ==
    [xmlns |-> {"", "p", "BambuStudio"},
     metadata |-> IF \E i \in DOMAIN model_metadata : model_metadata[i].name = "Application"
                  THEN model_metadata
                  ELSE <<[name |-> "Application", value |-> HostVersion]>> \o model_metadata,
     objects |-> [i \in DOMAIN assembly_objects |->
         [id |-> IntToStr(assembly_objects[i].id),
          uuid |-> assembly_objects[i].uuid,
          components |-> [k \in DOMAIN assembly_objects[i].components |->
              [path |-> assembly_objects[i].components[k].path,
               objectid |-> IntToStr(assembly_objects[i].components[k].objectid),
               uuid |-> assembly_objects[i].components[k].uuid]]]],
     build |-> [i \in DOMAIN build_items |->
         [objectid |-> IntToStr(build_items[i].objectid),
          uuid |-> build_items[i].uuid]]]

_build_main_model(assembly_objects, build_items, model_metadata) ==
    LET apps == SelectSeq(model_metadata, LAMBDA m : m.name = "Application")
        app == IF apps = <<>> THEN HostVersion ELSE apps[1].value
        rest == SelectSeq(model_metadata,
                    LAMBDA m : /\ m.name \notin {"Application", "BambuStudio:3mfVersion"}
                               /\ m.value # "")
    IN  [xmlns |-> {"", "p", "BambuStudio"},
         metadata |-> <<[name |-> "Application", value |-> app],
                        [name |-> "BambuStudio:3mfVersion", value |-> "1"]>> \o rest,
         objects |-> [i \in DOMAIN assembly_objects |->
             [id |-> IntToStr(assembly_objects[i].id),
              uuid |-> assembly_objects[i].uuid,
              components |-> [k \in DOMAIN assembly_objects[i].components |->
                  [path |-> assembly_objects[i].components[k].path,
                   objectid |-> IntToStr(assembly_objects[i].components[k].objectid),
                   uuid |-> assembly_objects[i].components[k].uuid]]]],
         build |-> [i \in DOMAIN build_items |->
             [objectid |-> IntToStr(build_items[i].objectid),
              uuid |-> build_items[i].uuid]]]

\* the extruder of a part is written only when the child carries one: it is
\* <<>> or <<extruder>>
_build_model_settings(groups, assembly_objects, ms_plates, ms_assemble) ==
    [present |-> TRUE,
     objects |-> [i \in DOMAIN assembly_objects |->
         [id |-> IntToStr(assembly_objects[i].id),
          name |-> groups[i].parent.name,
          extruder |-> Get(groups[i].parent.props, "bambu_extruder", 1),
          parts |-> [k \in DOMAIN assembly_objects[i].components |->
              LET child == groups[i].children[k]
              IN  [id |-> IntToStr(assembly_objects[i].components[k].objectid),
                   subtype |-> Get(child.props, "bambu_subtype", "normal_part"),
                   name |-> Get(child.props, "bambu_part_name", child.name),
                   extruder |-> IF "bambu_extruder" \in DOMAIN child.props
                                THEN <<child.props["bambu_extruder"]>> ELSE <<>>]]]],
     plates |-> [i \in DOMAIN ms_plates |->
         [metadata |-> ms_plates[i].metadata,
          instances |-> Get(ms_plates[i], "instances", <<>>)]],
     assemble |-> [i \in DOMAIN ms_assemble |->
         [object_id |-> Get(ms_assemble[i], "object_id", ""),
          instance_id |-> Get(ms_assemble[i], "instance_id", ""),
          transform |-> Get(ms_assemble[i], "transform", ""),
          offset |-> Get(ms_assemble[i], "offset", "")]]]

\* everything export_3mf writes once it has groups
WriteContainer(groups, collection) ==
    LET loop == ExportLoop(groups)
        assembly_objects == [g \in DOMAIN loop |-> loop[g].assembly]
        build_items == [g \in DOMAIN loop |-> loop[g].build_item]
        sub_model_refs == [g \in DOMAIN loop |-> loop[g].sub_path]
        valid_object_ids == {IntToStr(assembly_objects[g].id) : g \in DOMAIN loop}
        cleaned_plates == _clean_stale_plates(
                              Get(collection, "bambu_ms_plates", <<>>), valid_object_ids)
        cleaned_assemble == _clean_stale_assemble(
                                Get(collection, "bambu_ms_assemble", <<>>), valid_object_ids)
        defaults == _generate_default_plates(assembly_objects)
        ms_plates == IF cleaned_plates = <<>> THEN defaults.ms_plates ELSE cleaned_plates
        ms_assemble == IF cleaned_plates = <<>> THEN defaults.ms_assemble
                       ELSE cleaned_assemble
        valid_names == {groups[g].parent.name : g \in DOMAIN groups}
        cleaned_slice == _clean_stale_slice_plates(
                             Get(collection, "bambu_plates", <<>>), valid_names)
        plates_json == IF cleaned_slice = <<>>
                       THEN _generate_default_slice_plates(groups, assembly_objects)
                       ELSE cleaned_slice
    IN  [present |-> TRUE,
         main |-> _build_main_model(assembly_objects, build_items,
                                    Get(collection, "bambu_model_metadata", <<>>)),
         rels |-> sub_model_refs,
         subs |-> [name \in {ZipName(sub_model_refs[g]) : g \in DOMAIN loop} |->
                      SubModelXml(LastWith(loop, LAMBDA x : ZipName(x.sub_path),
                                           name).component_list)],
         ms |-> _build_model_settings(groups, assembly_objects, ms_plates, ms_assemble),
         slice |-> _build_slice_info(groups, plates_json),
         project |-> Get(collection, "bambu_project_settings_ref", "")]

\* An export that opens the output container before it looks at the groups.
ExportOpensContainerFirst(source, collections, old_file) ==
    LET groups == _collect_export_groups(source)
    IN  IF groups = <<>>
        THEN [result |-> "CANCELLED",
              file |-> [present |-> TRUE, main |-> _build_main_model(<<>>, <<>>, <<>>),
                        rels |-> <<>>, subs |-> <<>>, ms |-> NoMs, project |-> ""]]
        ELSE [result |-> "FINISHED",
              file |-> WriteContainer(groups, _find_bambu_collection(collections))]

\* export_3mf on the objects it is given: its result and the file at filepath
export_3mf(source, collections, old_file) ==
    LET groups == _collect_export_groups(source)
    IN  IF groups = <<>>
        THEN [result |-> "CANCELLED", file |-> old_file]
        ELSE [result |-> "FINISHED",
              file |-> WriteContainer(groups, _find_bambu_collection(collections))]

(***************************************************************************)
(* Source packages.  A package holds assembly objects 2 and 4 (object 4    *)
(* may be absent), their components and sub-model parts, a build list, a   *)
(* model_settings.config with plates and assemble items (or none), and     *)
(* model metadata and project settings (or none).                          *)
(***************************************************************************)
SrcPath(id) == SubPath(id - 1)

SrcUuid(on, label) == IF on THEN "uuid-" \o label ELSE ""

\* the part ids object `id` refers to, and those its sub-model part defines
ShapeRefs(id, shape) ==
    CASE shape = "one" -> <<id - 1>>
      [] shape = "two" -> <<id - 1, id + 3>>
      [] shape = "half" -> <<id - 1, id + 3>>
      [] shape = "unresolved" -> <<id - 1>>
      [] OTHER -> <<>>

ShapeMeshes(id, shape) ==
    CASE shape = "one" -> <<id - 1>>
      [] shape = "two" -> <<id - 1, id + 3>>
      [] shape = "half" -> <<id - 1>>
      [] OTHER -> <<>>

SrcObject(id, shape, uuids) ==
    LET refs == ShapeRefs(id, shape)
    IN  [id |-> IntToStr(id),
         uuid |-> SrcUuid(uuids, "object-" \o IntToStr(id)),
         components |-> [k \in DOMAIN refs |->
             [path |-> SrcPath(id),
              objectid |-> IntToStr(refs[k]),
              uuid |-> SrcUuid(uuids, "part-" \o IntToStr(refs[k]))]]]

SrcSubModel(id, shape, uuids) ==
    LET defs == ShapeMeshes(id, shape)
    IN  [k \in DOMAIN defs |->
            [id |-> IntToStr(defs[k]),
             uuid |-> SrcUuid(uuids, "mesh-" \o IntToStr(defs[k])),
             mesh |-> TRUE]]

SrcPlate(index, ids) ==
    [metadata |-> [index |-> IntToStr(index), locked |-> "false"],
     instances |-> [k \in DOMAIN ids |->
         [object_id |-> IntToStr(ids[k]), instance_id |-> "0",
          identify_id |-> IntToStr(100 + 10 * index + k)]]]

SrcPlates(idss) == [i \in DOMAIN idss |-> SrcPlate(i, idss[i])]

SrcAssemble(ids) ==
    [k \in DOMAIN ids |->
        [object_id |-> IntToStr(ids[k]), instance_id |-> "0",
         transform |-> "1 0 0 0 1 0 0 0 1 0 0 0", offset |-> "0 0 0"]]

SrcMeta(shape) ==
    CASE shape = "app" -> <<[name |-> "Application", value |-> "BambuStudio-01.09.00.70"]>>
      [] shape = "title" -> <<[name |-> "Title", value |-> "Clock"]>>
      [] shape = "full" ->
            <<[name |-> "Title", value |-> "Clock"],
              [name |-> "Application", value |-> "BambuStudio-01.09.00.70"],
              [name |-> "Description", value |-> ""],
              [name |-> "BambuStudio:3mfVersion", value |-> "1"],
              [name |-> "Title", value |-> "Tower"],
              [name |-> "Designer", value |-> "Ann"]>>
      [] OTHER -> <<>>

SrcFile(sh) ==
    LET present == SelectSeq(<<[id |-> 2, shape |-> sh.o2], [id |-> 4, shape |-> sh.o4]>>,
                             LAMBDA o : o.shape # "absent")
        withPart == SelectSeq(present, LAMBDA o : ShapeMeshes(o.id, o.shape) # <<>>)
    IN  [present |-> TRUE,
         main |-> [xmlns |-> {"", "p", "BambuStudio"},
                   metadata |-> SrcMeta(sh.meta),
                   objects |-> [i \in DOMAIN present |->
                                   SrcObject(present[i].id, present[i].shape, sh.uuids)],
                   build |-> [i \in DOMAIN sh.build |->
                                 [objectid |-> IntToStr(sh.build[i]),
                                  uuid |-> SrcUuid(sh.uuids, "item-" \o IntToStr(i))]]],
         rels |-> [i \in DOMAIN withPart |-> SrcPath(withPart[i].id)],
         subs |-> [name \in {ZipName(SrcPath(withPart[i].id)) : i \in DOMAIN withPart} |->
                      LET o == LastWith(withPart, LAMBDA x : ZipName(SrcPath(x.id)), name)
                      IN  SrcSubModel(o.id, o.shape, sh.uuids)],
         ms |-> IF sh.ms.present
                THEN [present |-> TRUE, objects |-> <<>>,
                      plates |-> SrcPlates(sh.ms.plates),
                      assemble |-> SrcAssemble(sh.ms.assemble)]
                ELSE NoMs,
         project |-> sh.project]

MsShape(plates, assemble) == [present |-> TRUE, plates |-> plates, assemble |-> assemble]

NoMsShape == [present |-> FALSE, plates |-> <<>>, assemble |-> <<>>]

\* the packages of the editing sessions
SessionShapes ==
    {sh \in
        [o2 : {"two"}, o4 : {"one"},
         build : {<<2, 4>>, <<2, 2>>},
         ms : {NoMsShape, MsShape(<<<<2>>, <<4>>>>, <<2, 4>>)},
         meta : {"app"}, project : {""}, uuids : {TRUE}] :
        sh.build = <<2, 4>> \/ sh.ms.present}

\* the packages of the round trips
RoundTripShapes ==
    {sh \in
        [o2 : {"zero", "one", "two", "half"},
         o4 : {"absent", "one", "unresolved"},
         build : {<<>>, <<2>>, <<4>>, <<2, 4>>, <<4, 2>>, <<2, 2>>, <<2, 6>>},
         ms : {NoMsShape}
              \cup {MsShape(p, a) :
                       p \in {<<>>, <<<<2>>>>, <<<<2>>, <<4>>>>, <<<<2>>, <<>>>>,
                              <<<<4>>, <<2, 2>>>>, <<<<6>>, <<2, 4>>>>},
                       a \in {<<>>, <<2, 4>>, <<4>>}},
         meta : {"app", "title", "full", "none"}, project : {"", "{}"}, uuids : {TRUE}] :
        sh.project = "" \/ sh.meta = "none"}

(***************************************************************************)
(* The session: imports, edits of the scene, then one export, where the    *)
(* model stops following the session.                                      *)
(***************************************************************************)
HistIdle ==
    [imports |-> 0, added |-> 0, removed |-> FALSE, removals |-> 0, exported |-> FALSE,
     src |-> NoFile, source |-> <<>>]

\* a package already at the export's filepath
ExistingFile ==
    SrcFile([o2 |-> "one", o4 |-> "absent", build |-> <<2>>, ms |-> NoMsShape,
             meta |-> "app", project |-> "", uuids |-> TRUE])

\* an empty scene; the export's filepath names no file or an existing one
InitSession ==
    /\ scene = <<>>
    /\ colls = <<>>
    /\ outFile \in {NoFile, ExistingFile}
    /\ opResult = "NONE"
    /\ hist = HistIdle
    /\ cl = ClIdle
    /\ call = CallIdle

InsertAt(s, pos, x) == SubSeq(s, 1, pos - 1) \o <<x>> \o SubSeq(s, pos, Len(s))

RemoveAt(s, pos) == SubSeq(s, 1, pos - 1) \o SubSeq(s, pos + 1, Len(s))

\* IMPORT_OT_bambu_3mf.execute: parse_3mf, then build_scene.  bpy.data.collections
\* is ordered by name, so the new collection may land anywhere among the others.
ImportFile(f) ==
    /\ ~hist.exported
    /\ LET data == parse_3mf(f)
       IN  /\ scene' = scene \o build_scene(data, NamesOf(scene))
           /\ \E pos \in 1..(Len(colls) + 1) :
                 colls' = InsertAt(colls, pos, StoreOnCollection(data))
    /\ opResult' = "FINISHED"
    /\ hist' = [hist EXCEPT !.imports = hist.imports + 1, !.src = f]
    /\ UNCHANGED <<outFile, cl, call>>

Import ==
    /\ hist.imports < MaxImports
    /\ \E sh \in SessionShapes : ImportFile(SrcFile(sh))

\* the import of the round trip: one package into the empty scene
ImportRoundTrip ==
    /\ colls = <<>>
    /\ \E sh \in RoundTripShapes : ImportFile(SrcFile(sh))

\* the user adds a mesh object (Blender names it Cube, Cube.001, ...): no
\* custom properties, no parent
AddMesh ==
    /\ ~hist.exported
    /\ hist.added < MaxNewMeshes
    /\ scene' = Append(scene, [type |-> "MESH", name |-> UniqueName(NamesOf(scene), "Cube"),
                                props |-> <<>>, children |-> <<>>])
    /\ hist' = [hist EXCEPT !.added = hist.added + 1]
    /\ UNCHANGED <<colls, outFile, opResult, cl, call>>

\* the user deletes one object: the children of a deleted parent stay in the
\* scene without a parent
DeleteObject ==
    /\ ~hist.exported
    /\ hist.removals < MaxRemovals
    /\ \E i \in DOMAIN scene :
          scene' = SubSeq(scene, 1, i - 1) \o scene[i].children
                       \o SubSeq(scene, i + 1, Len(scene))
    /\ hist' = [hist EXCEPT !.removed = TRUE, !.removals = hist.removals + 1]
    /\ UNCHANGED <<colls, outFile, opResult, cl, call>>

DeleteChild ==
    /\ ~hist.exported
    /\ hist.removals < MaxRemovals
    /\ \E i \in DOMAIN scene : \E k \in DOMAIN scene[i].children :
          scene' = [scene EXCEPT ![i].children = RemoveAt(scene[i].children, k)]
    /\ hist' = [hist EXCEPT !.removed = TRUE, !.removals = hist.removals + 1]
    /\ UNCHANGED <<colls, outFile, opResult, cl, call>>

\* EXPORT_OT_bambu_3mf.execute on the objects export_3mf reads
ExportOf(source) ==
    LET r == export_3mf(source, colls, outFile)
    IN  /\ ~hist.exported
        /\ outFile' = r.file
        /\ opResult' = r.result
        /\ hist' = [hist EXCEPT !.exported = TRUE, !.source = source]
        /\ UNCHANGED <<scene, colls, cl, call>>

\* selection_only = False: context.scene.objects
ExportScene == ExportOf(Flatten(scene))

\* selection_only = True: context.selected_objects, the user having selected
\* nothing, one top-level object, or the children of one top-level object
ExportSelection ==
    \/ ExportOf(<<>>)
    \/ \E i \in DOMAIN scene : ExportOf(<<scene[i]>>)
    \/ \E i \in DOMAIN scene :
           /\ scene[i].children # <<>>
           /\ ExportOf(scene[i].children)

Next ==
    \/ Import
    \/ AddMesh
    \/ DeleteObject
    \/ ExportScene
    \/ ExportSelection

Spec == InitSession /\ [][Next]_vars

NextRoundTrip ==
    \/ ImportRoundTrip
    \/ DeleteObject
    \/ DeleteChild
    \/ ExportScene

SpecRoundTrip == InitSession /\ [][NextRoundTrip]_vars

(***************************************************************************)
(* The codecs: the writer's escaping, the transform decoder and the        *)
(* extruder resolution, each applied to one input.  A text is a sequence   *)
(* of characters.                                                          *)
(***************************************************************************)
MaxLen == 2

MaxTokens == 13

\* if len(vals) != 12
TransformTokens == 12

Chars == {"a", "&", "<", ">", "\""}

Texts == UNION {[1..n -> Chars] : n \in 0..MaxLen}

\* str.replace(old, new) for a one-character old
StrReplace(text, old, new) ==
    Concat([i \in DOMAIN text |-> IF text[i] = old THEN new ELSE <<text[i]>>])

\* A helper that leaves the double quote alone.
EscKeepQuote(text) ==
    IF text = <<>> THEN <<>>
    ELSE StrReplace(StrReplace(StrReplace(text,
             "&", <<"&", "a", "m", "p", ";">>),
             "<", <<"&", "l", "t", ";">>),
             ">", <<"&", "g", "t", ";">>)

_esc(text) ==
    IF text = <<>> THEN <<>>
    ELSE StrReplace(StrReplace(StrReplace(StrReplace(text,
             "&", <<"&", "a", "m", "p", ";">>),
             "<", <<"&", "l", "t", ";">>),
             ">", <<"&", "g", "t", ";">>),
             "\"", <<"&", "q", "u", "o", "t", ";">>)

\* the host-supplied and round-tripped strings the writer passes through _esc
EscapedFields ==
    {"main.metadata.Application", "main.metadata.name", "main.metadata.value",
     "settings.object.name", "settings.part.subtype", "settings.part.name",
     "settings.plate.metadata.key", "settings.plate.metadata.value",
     "settings.model_instance.key", "settings.model_instance.value",
     "settings.assemble_item.object_id", "settings.assemble_item.instance_id",
     "settings.assemble_item.transform", "settings.assemble_item.offset",
     "slice.plate.metadata.key", "slice.plate.metadata.value",
     "slice.object.name", "slice.object.identify_id",
     "slice.filament.type", "slice.filament.color", "slice.filament.tray_info_idx"}

\* those it puts into an f-string as they are
RawFields ==
    {"main.object.UUID", "main.component.UUID", "main.component.transform",
     "main.item.transform", "sub.object.UUID",
     "slice.filament.used_m", "slice.filament.used_g"}

\* what the writer emits for a string of one of its fields
EmitField(field, text) == IF field \in EscapedFields THEN _esc(text) ELSE text

(* A number is m * 10^x, with two marks for what decimal digits cannot say *)
(* exactly here: eps, an offset of the size of single-precision rounding   *)
(* (it shows in the 8th or 9th significant digit), and tiny, an offset     *)
(* below the 9th significant digit.  Double arithmetic is taken as exact.  *)
RECURSIVE Norm(_)
Norm(n) ==
    IF n.m = 0 THEN [m |-> 0, x |-> 0, eps |-> 0, tiny |-> 0]
    ELSE IF n.m % 10 = 0 THEN Norm([n EXCEPT !.m = @ \div 10, !.x = @ + 1])
    ELSE n

Num(m, x) == Norm([m |-> m, x |-> x, eps |-> 0, tiny |-> 0])

\* x * scale, the scale a power of ten given by its exponent
Times(n, scale) == IF n.m = 0 THEN n ELSE [n EXCEPT !.x = @ + scale]

\* the decimal digits every single-precision integer of that length has
FloatDigits == 7

\* the values a single-precision entry holds exactly: here the integers
\* and the halves of up to FloatDigits digits
Exact32(n) ==
    LET Fits(m, x) == x \in 0..(FloatDigits - 1)
                         /\ m \in -(10 ^ (FloatDigits - x) - 1)..(10 ^ (FloatDigits - x) - 1)
    IN  /\ n.eps = 0 /\ n.tiny = 0
        /\ \/ n.m = 0
           \/ Fits(n.m, n.x)
           \/ n.x = -1 /\ n.m % 5 = 0 /\ Fits(n.m, 0)

\* what an entry of a mathutils Matrix (single precision) may hold after it
\* is given n: n itself when it is on the grid, else a neighbour on the grid
Float32(n) ==
    IF n.eps # 0 \/ Exact32([n EXCEPT !.tiny = 0]) THEN {[n EXCEPT !.tiny = 0]}
    ELSE {[n EXCEPT !.eps = e, !.tiny = 0] : e \in {-1, 1}}

\* f"{x:.9g}": nine significant digits
Format9(n) == [n EXCEPT !.tiny = 0]

\* the matrices Matrix(rows) may be for rows of doubles: noise(k) is the
\* side the k-th of the 12 variable entries is rounded to
MatrixOf(rows) ==
    LET Stored(n, e) == IF Cardinality(Float32(n)) = 1
                        THEN CHOOSE v \in Float32(n) : TRUE
                        ELSE CHOOSE v \in Float32(n) : v.eps = e
    IN  {[r \in 1..4 |-> [c \in 1..4 |->
              IF r = 4 THEN rows[r][c]
              ELSE Stored(rows[r][c], noise[4 * (r - 1) + c])]] :
          noise \in [1..TransformTokens -> {-1, 1}]}

\* Matrix.Identity(4)
Identity4 ==
    [r \in 1..4 |-> [c \in 1..4 |-> IF r = c THEN Num(1, 0) ELSE Num(0, 0)]]

\* a token float() rejects
BadToken == [text |-> "x"]

\* float(v): a token is a numeral, read as the number it names, or is rejected
IsNumber(token) == token # BadToken

\* the numbers the 12 positions are filled with, position i by its own
\* value: integers, halves, thousandths, values as the encoder renders a
\* single-precision entry, numerals of more than nine digits, negatives
Families == {"int", "half", "milli", "rendered", "long", "negative"}

TokenValue(fam, i) ==
    CASE fam = "int" -> Num(i, 0)
      [] fam = "half" -> Num(10 * i + 5, -1)
      [] fam = "milli" -> Num(i, -3)
      [] fam = "rendered" -> [Num(i, -3) EXCEPT !.eps = 1]
      [] fam = "long" -> [Num(i, 0) EXCEPT !.tiny = 1]
      [] OTHER -> Num(-i, -3)

\* a transform attribute: None, or a string of tokens, spaces around it or not
TransformInputs ==
    {[given |-> FALSE, pad |-> FALSE, tokens |-> <<>>]}
    \cup {[given |-> TRUE, pad |-> pad,
           tokens |-> [i \in 1..n |-> IF i = bad THEN BadToken ELSE TokenValue(fam, i)]] :
             pad \in BOOLEAN, n \in 0..MaxTokens, bad \in 0..MaxTokens, fam \in Families}

\* scales, as exponents of ten: MM_TO_M, 1, M_TO_MM
Scales == {-3, 0, 3}

\* A decoder that scales every entry.
ParseTransformScaleAll(transform_str, scale) ==
    LET vals == transform_str.tokens
    IN  IF ~transform_str.given \/ vals = <<>>
        THEN {[raised |-> "", matrix |-> Identity4]}
        ELSE IF \E i \in DOMAIN vals : ~IsNumber(vals[i])
        THEN {[raised |-> "ValueError", matrix |-> <<>>]}
        ELSE IF Len(vals) # TransformTokens
        THEN {[raised |-> "", matrix |-> Identity4]}
        ELSE {[raised |-> "", matrix |-> mat] : mat \in MatrixOf(
                 <<<<Times(vals[1], scale), Times(vals[4], scale),
                     Times(vals[7], scale), Times(vals[10], scale)>>,
                   <<Times(vals[2], scale), Times(vals[5], scale),
                     Times(vals[8], scale), Times(vals[11], scale)>>,
                   <<Times(vals[3], scale), Times(vals[6], scale),
                     Times(vals[9], scale), Times(vals[12], scale)>>,
                   <<Num(0, 0), Num(0, 0), Num(0, 0), Num(1, 0)>>>>)}

\* the outcomes of parse_3mf_transform: a matrix, or the exception raised
parse_3mf_transform(transform_str, scale) ==
    LET vals == transform_str.tokens      \* transform_str.strip().split()
    IN  IF ~transform_str.given \/ vals = <<>>
        THEN {[raised |-> "", matrix |-> Identity4]}
        ELSE IF \E i \in DOMAIN vals : ~IsNumber(vals[i])
        THEN {[raised |-> "ValueError", matrix |-> <<>>]}
        ELSE IF Len(vals) # TransformTokens
        THEN {[raised |-> "", matrix |-> Identity4]}
        ELSE {[raised |-> "", matrix |-> mat] : mat \in MatrixOf(
                 <<<<vals[1], vals[4], vals[7], Times(vals[10], scale)>>,
                   <<vals[2], vals[5], vals[8], Times(vals[11], scale)>>,
                   <<vals[3], vals[6], vals[9], Times(vals[12], scale)>>,
                   <<Num(0, 0), Num(0, 0), Num(0, 0), Num(1, 0)>>>>)}

\* An encoder that writes the matrix row by row.
MatrixTo3mfNoTranspose(mat, scale) ==
    <<Format9(mat[1][1]), Format9(mat[1][2]), Format9(mat[1][3]),
      Format9(mat[2][1]), Format9(mat[2][2]), Format9(mat[2][3]),
      Format9(mat[3][1]), Format9(mat[3][2]), Format9(mat[3][3]),
      Format9(Times(mat[1][4], scale)), Format9(Times(mat[2][4], scale)),
      Format9(Times(mat[3][4], scale))>>

\* the 12 tokens of the string matrix_to_3mf_transform returns
matrix_to_3mf_transform(mat, scale) ==
    <<Format9(mat[1][1]), Format9(mat[2][1]), Format9(mat[3][1]),
      Format9(mat[1][2]), Format9(mat[2][2]), Format9(mat[3][2]),
      Format9(mat[1][3]), Format9(mat[2][3]), Format9(mat[3][3]),
      Format9(Times(mat[1][4], scale)), Format9(Times(mat[2][4], scale)),
      Format9(Times(mat[3][4], scale))>>

\* the affine matrices a Matrix can hold, entry (r, c) with its own value
MatrixInputs ==
    UNION {MatrixOf([r \in 1..4 |-> [c \in 1..4 |->
                        IF r = 4 THEN Identity4[r][c]
                        ELSE IF fam = "rendered down"
                             THEN [Num(4 * (r - 1) + c, -3) EXCEPT !.eps = -1]
                             ELSE TokenValue(fam, 4 * (r - 1) + c)]]) :
           fam \in {"int", "half", "rendered", "rendered down"}}

\* a result not there yet
NoValue == [none |-> TRUE]

\* the value attribute of a <metadata key="extruder"> element: no such
\* element, an element without value, or a value
NoElement == "no element"

ExtruderValues == {NoElement, "", "0", "2", "3"}

\* a model_settings.config for object 2 and its part 1
ExtruderInputs ==
    {[entry |-> FALSE, object_extruder |-> NoElement,
      part |-> FALSE, part_extruder |-> NoElement]}
    \cup {[entry |-> TRUE, object_extruder |-> o, part |-> FALSE,
           part_extruder |-> NoElement] : o \in ExtruderValues}
    \cup {[entry |-> TRUE, object_extruder |-> o, part |-> TRUE, part_extruder |-> q] :
             o \in ExtruderValues, q \in ExtruderValues}

MkExtruderMetadata(value) ==
    IF value = NoElement THEN <<>> ELSE <<[key |-> "extruder", value |-> value]>>

MkSettings(in) ==
    IF ~in.entry THEN <<>>
    ELSE <<[id |-> "2",
            metadata |-> <<[key |-> "name", value |-> "Clock"]>>
                             \o MkExtruderMetadata(in.object_extruder),
            parts |-> IF ~in.part THEN <<>>
                      ELSE <<[id |-> "1",
                              metadata |-> MkExtruderMetadata(in.part_extruder)]>>]>>

\* the last value of a key among <metadata> elements, else the default;
\* Convert(_) is applied to the value found
LastMetadata(metadata, key, default, Convert(_)) ==
    LET hits == SelectSeq(metadata, LAMBDA e : e.key = key)
    IN  IF hits = <<>> THEN default ELSE Convert(hits[Len(hits)].value)

\* _parse_model_settings: object id -> its entry.  An optional integer is
\* <<>> (None) or <<n>>.
_parse_model_settings(objects) ==
    LET ObjId(o) == StrToInt(o.id)
        Same(v) == v
        IntOrNone(v) == IF v # "" THEN <<StrToInt(v)>> ELSE <<>>
        IntOrOne(v) == IF v # "" THEN StrToInt(v) ELSE 1
        Part(p) ==
            [id |-> StrToInt(p.id),
             name |-> LastMetadata(p.metadata, "name", "", Same),
             extruder |-> LastMetadata(p.metadata, "extruder", <<>>, IntOrNone)]
        Entry(o) ==
            [name |-> LastMetadata(o.metadata, "name", "", Same),
             extruder |-> LastMetadata(o.metadata, "extruder", 1, IntOrOne),
             parts |-> [part_id \in {StrToInt(o.parts[k].id) : k \in DOMAIN o.parts} |->
                           Part(o.parts[CHOOSE k \in DOMAIN o.parts :
                                   /\ StrToInt(o.parts[k].id) = part_id
                                   /\ \A j \in DOMAIN o.parts :
                                         StrToInt(o.parts[j].id) = part_id => j <= k])]]
    IN  [obj_id \in {ObjId(objects[i]) : i \in DOMAIN objects} |->
            Entry(objects[CHOOSE i \in DOMAIN objects :
                     /\ ObjId(objects[i]) = obj_id
                     /\ \A j \in DOMAIN objects : ObjId(objects[j]) = obj_id => j <= i])]

\* An enrichment that gives every object the defaults of an entry.
EnrichObjectsAll(objects, model_settings) ==
    [obj_id \in DOMAIN objects |->
        IF obj_id \in DOMAIN model_settings
        THEN [objects[obj_id] EXCEPT !.name = model_settings[obj_id].name,
                                     !.extruder = model_settings[obj_id].extruder]
        ELSE [objects[obj_id] EXCEPT !.name = "Object", !.extruder = 1]]

\* _enrich_objects: name and extruder of the objects that have an entry
_enrich_objects(objects, model_settings) ==
    [obj_id \in DOMAIN objects |->
        IF obj_id \in DOMAIN model_settings
        THEN [objects[obj_id] EXCEPT !.name = model_settings[obj_id].name,
                                     !.extruder = model_settings[obj_id].extruder]
        ELSE objects[obj_id]]

\* An extruder resolution that goes by the truth value of the part's extruder.
PartExtruderIfTruthy(obj_data, model_settings, part_id) ==
    LET parts_info == IF obj_data.id \in DOMAIN model_settings
                      THEN model_settings[obj_data.id].parts ELSE <<>>
    IN  IF part_id \in DOMAIN parts_info
             /\ parts_info[part_id].extruder \notin {<<>>, <<0>>}
        THEN parts_info[part_id].extruder[1]
        ELSE obj_data.extruder

\* build_scene: the bambu_extruder of the child made for a component
PartExtruder(obj_data, model_settings, part_id) ==
    LET parts_info == IF obj_data.id \in DOMAIN model_settings
                      THEN model_settings[obj_data.id].parts ELSE <<>>
    IN  IF part_id \in DOMAIN parts_info /\ parts_info[part_id].extruder # <<>>
        THEN parts_info[part_id].extruder[1]
        ELSE obj_data.extruder

\* the assembly object 2 with its one component, before enrichment
ExtruderObjects ==
    _parse_assembly(SrcFile([o2 |-> "one", o4 |-> "absent", build |-> <<2>>,
                             ms |-> NoMsShape, meta |-> "app", project |-> "",
                             uuids |-> TRUE]).main).objects

MaxChildren == 3

\* the children of one group: each with a stored bambu_part_id or without
ChildShapes ==
    {[stored |-> FALSE, pid |-> 0]}
    \cup {[stored |-> TRUE, pid |-> pid] : pid \in 1..(MaxChildren + 1)}

MkChild(sh) ==
    [type |-> "MESH",
     props |-> IF sh.stored THEN [x \in {"bambu_part_id"} |-> sh.pid] ELSE <<>>,
     children |-> <<>>]

InitCodec ==
    /\ scene = <<>> /\ colls = <<>> /\ outFile = NoFile /\ opResult = "NONE"
    /\ hist = HistIdle
    /\ cl = ClIdle
    /\ \/ \E f \in EscapedFields \cup RawFields : \E t \in Texts :
             call = [op |-> "emit", arg |-> [field |-> f, text |-> t],
                     out |-> <<>>, done |-> FALSE]
       \/ \E t \in TransformInputs : \E sc \in Scales :
             call = [op |-> "transform", arg |-> [transform_str |-> t, scale |-> sc],
                     out |-> <<>>, done |-> FALSE, back |-> NoValue]
       \/ \E mat \in MatrixInputs : \E sc \in Scales :
             call = [op |-> "matrix", arg |-> [mat |-> mat, scale |-> sc],
                     out |-> <<>>, done |-> FALSE, back |-> NoValue]
       \/ \E in \in ExtruderInputs :
             call = [op |-> "extruder", arg |-> in, out |-> <<>>, done |-> FALSE]
       \/ \E n \in 0..MaxChildren : \E shs \in [1..n -> ChildShapes] :
             call = [op |-> "sub_model", arg |-> [k \in 1..n |-> MkChild(shs[k])],
                     out |-> <<>>, done |-> FALSE]

Emit ==
    /\ call.op = "emit" /\ ~call.done
    /\ call' = [call EXCEPT !.out = EmitField(call.arg.field, call.arg.text),
                            !.done = TRUE]
    /\ UNCHANGED <<scene, colls, outFile, opResult, hist, cl>>

DecodeTransform ==
    /\ call.op = "transform" /\ ~call.done
    /\ \E o \in parse_3mf_transform(call.arg.transform_str, call.arg.scale) :
          call' = [call EXCEPT !.out = o, !.done = TRUE]
    /\ UNCHANGED <<scene, colls, outFile, opResult, hist, cl>>

\* the matrix decoded is encoded with the inverse scale
EncodeBack ==
    /\ call.op = "transform" /\ call.done /\ call.back = NoValue
    /\ call.out.raised = ""
    /\ call' = [call EXCEPT !.back = matrix_to_3mf_transform(call.out.matrix,
                                                             -call.arg.scale)]
    /\ UNCHANGED <<scene, colls, outFile, opResult, hist, cl>>

EncodeMatrix ==
    /\ call.op = "matrix" /\ ~call.done
    /\ call' = [call EXCEPT !.out = matrix_to_3mf_transform(call.arg.mat,
                                                            call.arg.scale),
                            !.done = TRUE]
    /\ UNCHANGED <<scene, colls, outFile, opResult, hist, cl>>

\* the string encoded is decoded with the inverse scale
DecodeBack ==
    /\ call.op = "matrix" /\ call.done /\ call.back = NoValue
    /\ \E o \in parse_3mf_transform([given |-> TRUE, pad |-> FALSE,
                                      tokens |-> call.out], -call.arg.scale) :
          call' = [call EXCEPT !.back = o]
    /\ UNCHANGED <<scene, colls, outFile, opResult, hist, cl>>

\* parse the settings, enrich object 2, resolve the extruder of its part 1
ResolveExtruder ==
    /\ call.op = "extruder" /\ ~call.done
    /\ LET model_settings == _parse_model_settings(MkSettings(call.arg))
           objects == _enrich_objects(ExtruderObjects, model_settings)
       IN  call' = [call EXCEPT !.out = PartExtruder(objects[2], model_settings, 1),
                                !.done = TRUE]
    /\ UNCHANGED <<scene, colls, outFile, opResult, hist, cl>>

\* the part ids _build_sub_model gives the children of one group
BuildSubModel ==
    /\ call.op = "sub_model" /\ ~call.done
    /\ call' = [call EXCEPT !.out = _build_sub_model(call.arg, 1), !.done = TRUE]
    /\ UNCHANGED <<scene, colls, outFile, opResult, hist, cl>>

NextCodec ==
    \/ Emit \/ ResolveExtruder \/ BuildSubModel
    \/ DecodeTransform \/ EncodeBack \/ EncodeMatrix \/ DecodeBack

SpecCodec == InitCodec /\ [][NextCodec]_vars

(***************************************************************************)
(* parser.py, one call of parse_3mf step by step over a container whose    *)
(* parts may be absent or damaged.  The call holds the handle of the       *)
(* container from the `with` statement to its exit.                        *)
(***************************************************************************)
RootName == "3D/3dmodel.model"

ModelSettingsName == "Metadata/model_settings.config"

SliceInfoName == "Metadata/slice_info.config"

ProjectSettingsName == "Metadata/project_settings.config"

\* the package the containers are made of: objects 2 and 4, both placed
ParseShape ==
    [o2 |-> "two", o4 |-> "one", build |-> <<2, 4>>,
     ms |-> MsShape(<<<<2>>, <<4>>>>, <<2, 4>>),
     meta |-> "full", project |-> "{}", uuids |-> TRUE]

SubNames == DOMAIN SrcFile(ParseShape).subs

\* <object id="2"> of model_settings.config: a name, an extruder, one part
SrcSettingsObjects ==
    <<[id |-> "2",
       metadata |-> <<[key |-> "name", value |-> "Clock"],
                      [key |-> "extruder", value |-> "3"]>>,
       parts |-> <<[id |-> "1", metadata |-> <<[key |-> "name", value |-> "Dial"]>>]>>]>>

\* a slice_info.config of two plates; filament 1 is declared on both, and
\* filament 2 twice on the second
SrcSliceInfo ==
    <<[metadata |-> <<[key |-> "index", value |-> "1"]>>,
       objects |-> <<[identify_id |-> "10", name |-> "Clock", skipped |-> "false"]>>,
       filaments |-> <<[id |-> "1", type |-> "PLA", color |-> "#FFFFFF",
                        tray_info_idx |-> "GFA00", used_m |-> "1.5", used_g |-> "4.5"]>>],
      [metadata |-> <<[key |-> "index", value |-> "2"]>>,
       objects |-> <<>>,
       filaments |-> <<[id |-> "1", type |-> "PETG", color |-> "#000000",
                        tray_info_idx |-> "GFG00", used_m |-> "2", used_g |-> "6"],
                       [id |-> "2", type |-> "ABS", color |-> "#FF0000",
                        tray_info_idx |-> "GFB00", used_m |-> "3", used_g |-> "9"],
                       [id |-> "2", type |-> "ABS", color |-> "#0000FF",
                        tray_info_idx |-> "GFB01", used_m |-> "1", used_g |-> "3"]>>]>>

\* what can be wrong with a part: it is not in the container, it is not
\* XML (not UTF-8, for the JSON part), or an element lacks a required attribute
PartStates == {"ok", "absent", "damaged", "no attribute"}

ContainerStates ==
    [zip : {"ok", "bad"},
     root : PartStates \cup {"other root"},
     subs : [SubNames -> PartStates],
     ms : PartStates \ {"no attribute"},
     slice : PartStates \ {"no attribute"},
     project : PartStates \ {"no attribute"}]

Container(st) ==
    LET f == SrcFile(ParseShape)
        StateOf(name) ==
            CASE name = RootName -> st.root
              [] name = ModelSettingsName -> st.ms
              [] name = SliceInfoName -> st.slice
              [] name = ProjectSettingsName -> st.project
              [] OTHER -> st.subs[name]
        ContentOf(name) ==
            CASE name = RootName -> f.main
              [] name = ModelSettingsName -> [f.ms EXCEPT !.objects = SrcSettingsObjects]
              [] name = SliceInfoName -> SrcSliceInfo
              [] name = ProjectSettingsName -> f.project
              [] OTHER -> f.subs[name]
        names == {RootName, ModelSettingsName, SliceInfoName, ProjectSettingsName}
                     \cup SubNames
    IN  [zip |-> st.zip,
         parts |-> [name \in {n \in names : StateOf(n) # "absent"} |->
                       [state |-> StateOf(name), content |-> ContentOf(name)]]]

None == [state |-> "None"]

\* zf.read(path), None on KeyError
_read_zip(zf, path) == IF path \in DOMAIN zf.parts THEN zf.parts[path] ELSE None

\* what ET.fromstring and the attribute conversions raise for a part
XmlError(xml_bytes) ==
    CASE xml_bytes = None -> "TypeError"                 \* ET.fromstring(None)
      [] xml_bytes.state = "damaged" -> "ParseError"
      [] xml_bytes.state = "no attribute" -> "TypeError" \* int(None), float(None)
      [] OTHER -> ""

\* _parse_assembly(xml_bytes): the root element is not looked at, its
\* children are
ParseAssemblyPart(xml_bytes) ==
    IF XmlError(xml_bytes) # "" THEN [raised |-> XmlError(xml_bytes), value |-> <<>>]
    ELSE [raised |-> "", value |-> _parse_assembly(xml_bytes.content)]

ParseSubModelPart(xml_bytes) ==
    IF XmlError(xml_bytes) # "" THEN [raised |-> XmlError(xml_bytes), value |-> {}]
    ELSE [raised |-> "", value |-> _parse_sub_model(xml_bytes.content)]

\* _parse_model_settings and _parse_model_settings_plates of the same bytes
ParseModelSettingsPart(xml_bytes) ==
    IF xml_bytes = None
    THEN [raised |-> "", model_settings |-> <<>>, plates |-> <<>>, assemble |-> <<>>]
    ELSE IF XmlError(xml_bytes) # ""
    THEN [raised |-> XmlError(xml_bytes), model_settings |-> <<>>,
          plates |-> <<>>, assemble |-> <<>>]
    ELSE [raised |-> "",
          model_settings |-> _parse_model_settings(xml_bytes.content.objects),
          plates |-> _parse_model_settings_plates(xml_bytes.content).plates,
          assemble |-> _parse_model_settings_plates(xml_bytes.content).assemble]

\* A slice_info parser whose filament table keeps the last declaration.
ParseSliceInfoLastWins(plates) ==
    LET Index(meta) ==
            LET hits == SelectSeq(meta, LAMBDA e : e.key = "index")
            IN  IF hits = <<>> THEN 0 ELSE StrToInt(hits[Len(hits)].value)
        Fil(fil) == [fil EXCEPT !.id = StrToInt(fil.id)]
        Plate(plate) ==
            [index |-> Index(plate.metadata),
             objects |-> [i \in DOMAIN plate.objects |->
                            [plate.objects[i] EXCEPT !.skipped = (@ = "true")]],
             filaments |-> [i \in DOMAIN plate.filaments |-> Fil(plate.filaments[i])],
             metadata |-> plate.metadata]
        all == Concat([i \in DOMAIN plates |-> Plate(plates[i]).filaments])
        Last(fid) == all[CHOOSE i \in DOMAIN all :
                              /\ all[i].id = fid
                              /\ \A j \in DOMAIN all : all[j].id = fid => j <= i]
    IN  [filaments |-> [fid \in {all[i].id : i \in DOMAIN all} |->
                           [id |-> fid, type |-> Last(fid).type,
                            color |-> Last(fid).color,
                            tray_info_idx |-> Last(fid).tray_info_idx]],
         plates |-> [i \in DOMAIN plates |-> Plate(plates[i])]]

\* the plates and the filament table of a slice_info.config
_parse_slice_info(plates) ==
    LET Index(meta) ==
            LET hits == SelectSeq(meta, LAMBDA e : e.key = "index")
            IN  IF hits = <<>> THEN 0 ELSE StrToInt(hits[Len(hits)].value)
        Fil(fil) == [fil EXCEPT !.id = StrToInt(fil.id)]
        Plate(plate) ==
            [index |-> Index(plate.metadata),
             objects |-> [i \in DOMAIN plate.objects |->
                            [plate.objects[i] EXCEPT !.skipped = (@ = "true")]],
             filaments |-> [i \in DOMAIN plate.filaments |-> Fil(plate.filaments[i])],
             metadata |-> plate.metadata]
        all == Concat([i \in DOMAIN plates |-> Plate(plates[i]).filaments])
        First(fid) == all[CHOOSE i \in DOMAIN all :
                              /\ all[i].id = fid
                              /\ \A j \in DOMAIN all : all[j].id = fid => i <= j]
    IN  [filaments |-> [fid \in {all[i].id : i \in DOMAIN all} |->
                           [id |-> fid, type |-> First(fid).type,
                            color |-> First(fid).color,
                            tray_info_idx |-> First(fid).tray_info_idx]],
         plates |-> [i \in DOMAIN plates |-> Plate(plates[i])]]

\* A slice_info parser without the test for None.
ParseSliceInfoPartNoNoneTest(xml_bytes) ==
    IF XmlError(xml_bytes) # ""
    THEN [raised |-> XmlError(xml_bytes), filaments |-> <<>>, plates |-> <<>>]
    ELSE [raised |-> "",
          filaments |-> _parse_slice_info(xml_bytes.content).filaments,
          plates |-> _parse_slice_info(xml_bytes.content).plates]

ParseSliceInfoPart(xml_bytes) ==
    IF xml_bytes = None
    THEN [raised |-> "", filaments |-> <<>>, plates |-> <<>>]
    ELSE IF XmlError(xml_bytes) # ""
    THEN [raised |-> XmlError(xml_bytes), filaments |-> <<>>, plates |-> <<>>]
    ELSE [raised |-> "",
          filaments |-> _parse_slice_info(xml_bytes.content).filaments,
          plates |-> _parse_slice_info(xml_bytes.content).plates]

\* raw.decode("utf-8") if raw else None: <<>> is None, <<text>> a string
_read_zip_str(zf, path) ==
    LET raw == _read_zip(zf, path)
    IN  IF raw = None \/ (raw.state = "ok" /\ raw.content = "")
        THEN [raised |-> "", value |-> <<>>]
        ELSE IF raw.state = "damaged"
        THEN [raised |-> "UnicodeDecodeError", value |-> <<>>]
        ELSE [raised |-> "", value |-> <<raw.content>>]

NoData ==
    [metadata |-> <<>>, objects |-> <<>>, build_items |-> <<>>, meshes |-> {},
     filaments |-> <<>>, plates |-> <<>>, model_settings |-> <<>>,
     ms_plates |-> <<>>, ms_assemble |-> <<>>, project_settings |-> <<>>]

ParseStart(st) ==
    [op |-> "parse", arg |-> Container(st), pc |-> "open", handle |-> "none",
     todo |-> {}, reads |-> <<>>, late |-> FALSE, data |-> NoData, raised |-> ""]

\* A `with` that releases the handle only when its body ends normally.
WithExitOnSuccessOnly(handle, raised) == IF raised = "" THEN "closed" ELSE handle

\* ZipFile.__exit__: the handle is closed, whether the body raised or not
WithExit(handle, raised) == "closed"

\* an exception leaves the `with` block and the call
Raise(c, exc) ==
    [c EXCEPT !.pc = "raised", !.raised = exc, !.handle = WithExit(c.handle, exc)]

\* one zf.read / zf.writestr through the handle
Access(c, name) ==
    [c EXCEPT !.reads = Append(@, name), !.late = @ \/ c.handle # "open"]

\* with zipfile.ZipFile(filepath, "r") as zf
ParseOpen ==
    /\ call.op = "parse" /\ call.pc = "open"
    /\ call' = IF call.arg.zip = "bad"
               THEN [call EXCEPT !.pc = "raised", !.raised = "BadZipFile"]
               ELSE [call EXCEPT !.pc = "assembly", !.handle = "open"]
    /\ UNCHANGED <<scene, colls, outFile, opResult, hist, cl>>

ParseAssembly ==
    /\ call.op = "parse" /\ call.pc = "assembly"
    /\ LET c == Access(call, RootName)
           asm == ParseAssemblyPart(_read_zip(call.arg, RootName))
           objects == asm.value.objects
       IN  call' =
             IF asm.raised # "" THEN Raise(c, asm.raised)
             ELSE [c EXCEPT !.pc = "subs",
                            !.data.metadata = asm.value.metadata,
                            !.data.objects = objects,
                            !.data.build_items = asm.value.build_items,
                            !.todo = UNION {{objects[id].components[k].path :
                                               k \in DOMAIN objects[id].components} :
                                            id \in DOMAIN objects}]
    /\ UNCHANGED <<scene, colls, outFile, opResult, hist, cl>>

\* one turn of `for path in sub_paths`, a set: any path may come next
ParseSubModel ==
    /\ call.op = "parse" /\ call.pc = "subs"
    /\ \E path \in call.todo :
          LET c == Access(call, ZipName(path))
              xml_bytes == _read_zip(call.arg, ZipName(path))
              sub == ParseSubModelPart(xml_bytes)
          IN  call' =
                IF xml_bytes = None THEN [c EXCEPT !.todo = @ \ {path}]
                ELSE IF sub.raised # "" THEN Raise(c, sub.raised)
                ELSE [c EXCEPT !.todo = @ \ {path},
                               !.data.meshes = @ \cup {<<path, obj_id>> :
                                                         obj_id \in sub.value}]
    /\ UNCHANGED <<scene, colls, outFile, opResult, hist, cl>>

ParseModelSettings ==
    /\ call.op = "parse" /\ call.pc = "subs" /\ call.todo = {}
    /\ LET c == Access(call, ModelSettingsName)
           ms == ParseModelSettingsPart(_read_zip(call.arg, ModelSettingsName))
       IN  call' =
             IF ms.raised # "" THEN Raise(c, ms.raised)
             ELSE [c EXCEPT !.pc = "slice_info",
                            !.data.model_settings = ms.model_settings,
                            !.data.ms_plates = ms.plates,
                            !.data.ms_assemble = ms.assemble]
    /\ UNCHANGED <<scene, colls, outFile, opResult, hist, cl>>

ParseSliceInfo ==
    /\ call.op = "parse" /\ call.pc = "slice_info"
    /\ LET c == Access(call, SliceInfoName)
           si == ParseSliceInfoPart(_read_zip(call.arg, SliceInfoName))
       IN  call' =
             IF si.raised # "" THEN Raise(c, si.raised)
             ELSE [c EXCEPT !.pc = "project_settings",
                            !.data.filaments = si.filaments,
                            !.data.plates = si.plates]
    /\ UNCHANGED <<scene, colls, outFile, opResult, hist, cl>>

ReadProjectSettings ==
    /\ call.op = "parse" /\ call.pc = "project_settings"
    /\ LET c == Access(call, ProjectSettingsName)
           ps == _read_zip_str(call.arg, ProjectSettingsName)
       IN  call' =
             IF ps.raised # "" THEN Raise(c, ps.raised)
             ELSE [c EXCEPT !.pc = "enrich", !.data.project_settings = ps.value]
    /\ UNCHANGED <<scene, colls, outFile, opResult, hist, cl>>

\* the last statement of the `with` block, and its exit
ParseEnrich ==
    /\ call.op = "parse" /\ call.pc = "enrich"
    /\ call' = [call EXCEPT !.pc = "return",
                            !.data.objects = _enrich_objects(@, call.data.model_settings),
                            !.handle = WithExit(@, "")]
    /\ UNCHANGED <<scene, colls, outFile, opResult, hist, cl>>

\* return {...}, with project_settings or ""
ParseReturn ==
    /\ call.op = "parse" /\ call.pc = "return"
    /\ call' = [call EXCEPT !.pc = "returned",
                            !.data.project_settings = IF @ = <<>> THEN "" ELSE @[1]]
    /\ UNCHANGED <<scene, colls, outFile, opResult, hist, cl>>

(***************************************************************************)
(* serializer.py, one call of export_3mf step by step, for the handle it   *)
(* creates: the parts are built and written inside the `with` block, and   *)
(* building or writing may fail.                                           *)
(***************************************************************************)
\* the parts export_3mf writes for n groups, in the order of its writestr calls
ExportParts(n, stored) ==
    <<"[Content_Types].xml", "_rels/.rels", RootName, "3D/_rels/3dmodel.model.rels">>
    \o [i \in 1..n |-> ZipName(SubPath(i))]
    \o <<ModelSettingsName, SliceInfoName>>
    \o (IF stored THEN <<ProjectSettingsName>> ELSE <<>>)

ExportStart(n, stored) ==
    [op |-> "export", arg |-> [groups |-> n, stored |-> stored], pc |-> "open",
     handle |-> "none", todo |-> <<>>, reads |-> <<>>, late |-> FALSE,
     data |-> <<>>, raised |-> ""]

\* if not groups: return {"CANCELLED"}; with zipfile.ZipFile(filepath, "w")
ExportOpen ==
    /\ call.op = "export" /\ call.pc = "open"
    /\ \/ /\ call.arg.groups = 0
          /\ call' = [call EXCEPT !.pc = "returned", !.data = "CANCELLED"]
       \/ /\ call.arg.groups > 0
          /\ \/ call' = [call EXCEPT !.pc = "build", !.handle = "open"]
             \/ call' = [call EXCEPT !.pc = "raised", !.raised = "OSError"]
    /\ UNCHANGED <<scene, colls, outFile, opResult, hist, cl>>

\* the loop over the groups and the XML of every part, all in memory
ExportBuild ==
    /\ call.op = "export" /\ call.pc = "build"
    /\ \/ call' = [call EXCEPT !.pc = "write",
                               !.todo = ExportParts(call.arg.groups, call.arg.stored)]
       \/ call' = Raise(call, "RuntimeError")
    /\ UNCHANGED <<scene, colls, outFile, opResult, hist, cl>>

\* one zf.writestr
ExportWrite ==
    /\ call.op = "export" /\ call.pc = "write" /\ call.todo # <<>>
    /\ \/ call' = [Access(call, Head(call.todo)) EXCEPT !.todo = Tail(@)]
       \/ call' = Raise(call, "OSError")
    /\ UNCHANGED <<scene, colls, outFile, opResult, hist, cl>>

\* the exit of the `with` block after the last write
ExportClose ==
    /\ call.op = "export" /\ call.pc = "write" /\ call.todo = <<>>
    /\ call' = [call EXCEPT !.pc = "return", !.handle = WithExit(@, "")]
    /\ UNCHANGED <<scene, colls, outFile, opResult, hist, cl>>

ExportReturn ==
    /\ call.op = "export" /\ call.pc = "return"
    /\ call' = [call EXCEPT !.pc = "returned", !.data = "FINISHED"]
    /\ UNCHANGED <<scene, colls, outFile, opResult, hist, cl>>

InitContainer ==
    /\ scene = <<>> /\ colls = <<>> /\ outFile = NoFile /\ opResult = "NONE"
    /\ hist = HistIdle
    /\ cl = ClIdle
    /\ \/ \E st \in ContainerStates : call = ParseStart(st)
       \/ \E n \in 0..MaxNewMeshes : \E stored \in BOOLEAN : call = ExportStart(n, stored)

NextContainer ==
    \/ ParseOpen \/ ParseAssembly \/ ParseSubModel \/ ParseModelSettings
    \/ ParseSliceInfo \/ ReadProjectSettings \/ ParseEnrich \/ ParseReturn
    \/ ExportOpen \/ ExportBuild \/ ExportWrite \/ ExportClose \/ ExportReturn

SpecContainer == InitContainer /\ [][NextContainer]_vars

(***************************************************************************)
(* Claims about the cleanup functions (checked under SpecClean).           *)
(***************************************************************************)
\* the argument and the entries of the last application
ClLastArg == IF cl.step = 1 THEN cl.in ELSE cl.prev

ClEntries(x) ==
    CASE cl.fn = "plates" -> Concat([i \in DOMAIN x |-> x[i].instances])
      [] cl.fn = "slice" -> Concat([i \in DOMAIN x |-> x[i].objects])
      [] OTHER -> x

ClKey(e) == Get(e, IF cl.fn = "slice" THEN "name" ELSE "object_id", "")

ClPlateEntries(p) == IF cl.fn = "slice" THEN p.objects ELSE p.instances

ClTag(e) == StrToInt(IF cl.fn = "assemble" THEN e.instance_id ELSE e.identify_id)

\* C3: after a cleanup with valid set V the result holds exactly the input
\* entries whose object_id (model_instance, assemble_item) or name (slice_info
\* object) is in V, each once, and no returned plate is left with zero entries.
C3_CleanupIsFilter ==
    cl.step >= 1 =>
        /\ Range(ClEntries(cl.out)) =
               {e \in Range(ClEntries(ClLastArg)) : ClKey(e) \in cl.valid}
        /\ Len(ClEntries(cl.out)) = Cardinality(Range(ClEntries(cl.out)))
        /\ cl.fn \in {"plates", "slice"} =>
               \A i \in DOMAIN cl.out : ClPlateEntries(cl.out[i]) # <<>>

C3_Witness ==
    /\ cl.step = 1
    /\ cl.fn = "plates"
    /\ Len(cl.in) = 2
    /\ Len(cl.out) = 1
    /\ Len(cl.in[1].instances) = 2
    /\ Len(cl.out[1].instances) = 1

\* C4: the N plates a plate cleanup returns carry index "1", "2", ..., "N" in
\* list order whatever index the input plates carried, and surviving plates and
\* the surviving entries inside each plate keep their relative input order.
C4_IndicesContiguousOrderKept ==
    (cl.step >= 1 /\ cl.fn \in {"plates", "slice"}) =>
        /\ \A i \in DOMAIN cl.out :
              /\ "index" \in DOMAIN cl.out[i].metadata
              /\ cl.out[i].metadata["index"] = IntToStr(i)
        /\ \A i \in DOMAIN cl.out :
              LET es == ClPlateEntries(cl.out[i])
              IN  /\ \A j, k \in DOMAIN es : j < k => ClTag(es[j]) < ClTag(es[k])
                  /\ \A j, k \in DOMAIN es : ClTag(es[j]) \div 10 = ClTag(es[k]) \div 10
        /\ \A i, k \in DOMAIN cl.out :
              i < k => ClTag(ClPlateEntries(cl.out[i])[1]) \div 10
                           < ClTag(ClPlateEntries(cl.out[k])[1]) \div 10

C4_Witness ==
    /\ cl.step = 1
    /\ cl.fn = "slice"
    /\ Len(cl.in) = 2
    /\ Len(cl.out) = 2
    /\ "index" \notin DOMAIN cl.in[1].metadata
    /\ Get(cl.in[2].metadata, "index", "") = "2"
    /\ Len(cl.in[2].objects) = 2
    /\ Len(cl.out[2].objects) = 2

\* C5: applying a cleanup function a second time, with the same valid set, to
\* its own output returns that output.
C5_CleanupIdempotent == cl.step = 2 => cl.out = cl.prev

C5_Witness ==
    /\ cl.step = 2
    /\ cl.fn = "plates"
    /\ Len(cl.in) = 2
    /\ Len(cl.prev) = 1
    /\ cl.prev[1].instances = cl.in[2].instances
    /\ cl.out = cl.prev

(***************************************************************************)
(* Claims about the export of an edited scene (checked under Spec).        *)
(***************************************************************************)
\* an export has written its package
Exported == hist.exported /\ opResult = "FINISHED"

\* the groups of the export and the assembly <object>s written for them
OutGroups == _collect_export_groups(hist.source)

OutObjects == outFile.main.objects

\* C1: every group that carries a stored bambu_object_id is written under
\* that id, and the assembly ids of all groups of one export are pairwise
\* distinct.
C1_AssemblyIdsDistinct ==
    Exported =>
        /\ \A g \in DOMAIN OutGroups :
              "bambu_object_id" \in DOMAIN OutGroups[g].parent.props =>
                  OutObjects[g].id = IntToStr(OutGroups[g].parent.props["bambu_object_id"])
        /\ \A g, h \in DOMAIN OutObjects :
              g # h => OutObjects[g].id # OutObjects[h].id

\* C2: across all sub-models written by one export, part ids are pairwise
\* distinct: the id of an <object> of one sub-model is the id of no other
\* <object>, neither of the same sub-model nor of another.
C2_PartIdsDistinct ==
    Exported =>
        \A n, m \in DOMAIN outFile.subs :
            \A i \in DOMAIN outFile.subs[n] : \A j \in DOMAIN outFile.subs[m] :
                (n # m \/ i # j) => outFile.subs[n][i].id # outFile.subs[m][j].id

\* C6: in the model_settings.config of every export, every model_instance
\* object_id and every assemble_item object_id is the id of an <object>
\* block written in the same export, and every <item> of <build> references
\* an <object> written in <resources>.
C6_PackageSelfConsistent ==
    Exported =>
        LET settings_ids == {outFile.ms.objects[i].id : i \in DOMAIN outFile.ms.objects}
            resource_ids == {OutObjects[i].id : i \in DOMAIN OutObjects}
        IN  /\ \A p \in DOMAIN outFile.ms.plates :
                  \A k \in DOMAIN outFile.ms.plates[p].instances :
                      /\ "object_id" \in DOMAIN outFile.ms.plates[p].instances[k]
                      /\ outFile.ms.plates[p].instances[k].object_id \in settings_ids
            /\ \A a \in DOMAIN outFile.ms.assemble :
                  outFile.ms.assemble[a].object_id \in settings_ids
            /\ \A b \in DOMAIN outFile.main.build :
                  outFile.main.build[b].objectid \in resource_ids

\* the plates and assemble items stored on the collection the export reads
StoredPlates == Get(_find_bambu_collection(colls), "bambu_ms_plates", <<>>)

StoredAssemble == Get(_find_bambu_collection(colls), "bambu_ms_assemble", <<>>)

\* an export after a removal: stored plates and assemble items survive next
\* to stored ones that refer to an object no longer exported
C6_Witness ==
    /\ Exported
    /\ hist.removed
    /\ outFile.ms.plates # <<>>
    /\ outFile.ms.plates[1].instances[1].identify_id = "111"
    /\ Len(outFile.ms.plates) < Len(StoredPlates)
    /\ outFile.ms.assemble # <<>>
    /\ Len(outFile.ms.assemble) < Len(StoredAssemble)

\* C7: an export that finds zero groups reports CANCELLED and leaves the
\* file at its filepath as it was: not created, not truncated, not written.
C7_NoGroupsCancelsWithoutFile ==
    [][(hist'.exported /\ ~hist.exported
            /\ _collect_export_groups(hist'.source) = <<>>)
          => (opResult' = "CANCELLED" /\ outFile' = outFile)]_vars

\* an export of a scene that holds objects but no group was cancelled, and
\* the package that was at the filepath is still there
C7_Witness ==
    /\ hist.exported
    /\ opResult = "CANCELLED"
    /\ scene # <<>>
    /\ hist.source # <<>>
    /\ outFile = ExistingFile

\* C10: every UUID present on a group, a child part or a build item is
\* written verbatim: the stored bambu_uuid of the assembly object, the stored
\* bambu_part_uuid of each part and the UUID of the source's build item
\* reappear unchanged in the exported package.
C10_UUIDsPreserved ==
    (Exported /\ hist.imports = 1 /\ hist.added = 0 /\ ~hist.removed
         /\ hist.source = Flatten(scene)) =>
        /\ \A g \in DOMAIN OutGroups :
              /\ "bambu_uuid" \in DOMAIN OutGroups[g].parent.props =>
                     OutObjects[g].uuid = OutGroups[g].parent.props["bambu_uuid"]
              /\ \A k \in DOMAIN OutGroups[g].children :
                     "bambu_part_uuid" \in DOMAIN OutGroups[g].children[k].props =>
                         OutObjects[g].components[k].uuid
                             = OutGroups[g].children[k].props["bambu_part_uuid"]
        /\ Len(outFile.main.build) = Len(hist.src.main.build)
        /\ \A b \in DOMAIN outFile.main.build :
              hist.src.main.build[b].uuid # "" =>
                  outFile.main.build[b].uuid = hist.src.main.build[b].uuid

(***************************************************************************)
(* Claims about the round trip: one package imported into the empty scene  *)
(* and exported again (checked under SpecRoundTrip).                       *)
(***************************************************************************)
\* the package was imported and the scene exported, no object removed
RoundTripDone == hist.imports = 1 /\ ~hist.removed /\ hist.exported

RoundTripped == RoundTripDone /\ opResult = "FINISHED"

\* the first parse and the parse of the exported package
FirstParse == parse_3mf(hist.src)

ReParse == parse_3mf(outFile)

NumObjects(data) == Cardinality(DOMAIN data.objects)

NumBuildItems(data) == Len(data.build_items)

NumComponents(data) ==
    Cardinality(UNION {{<<id, c>> : c \in DOMAIN data.objects[id].components} :
                           id \in DOMAIN data.objects})

\* the components of an object for which the package holds a mesh
ResolvedComponents(data, id) ==
    {c \in DOMAIN data.objects[id].components :
        <<data.objects[id].components[c].path,
          data.objects[id].components[c].objectid>> \in data.meshes}

\* the build items that place an object of the package with a mesh to show
PlacedItems(data) ==
    {b \in DOMAIN data.build_items :
        /\ data.build_items[b].objectid \in DOMAIN data.objects
        /\ ResolvedComponents(data, data.build_items[b].objectid) # {}}

PlacedObjects(data) == {data.build_items[b].objectid : b \in PlacedItems(data)}

\* every build item names an object of the package, and every object has
\* components, each with its mesh
WellFormed(data) ==
    /\ \A b \in DOMAIN data.build_items :
          data.build_items[b].objectid \in DOMAIN data.objects
    /\ \A id \in DOMAIN data.objects :
          /\ data.objects[id].components # <<>>
          /\ ResolvedComponents(data, id) = DOMAIN data.objects[id].components

\* well formed, and every object is placed by a build item
FullyPlaced(data) ==
    /\ WellFormed(data)
    /\ PlacedObjects(data) = DOMAIN data.objects

\* C8: for a well-formed package, the re-parse of the exported package has
\* as many assembly objects, build items and components as the first parse.
C8_CountsPreserved ==
    (RoundTripped /\ WellFormed(FirstParse)) =>
        /\ NumObjects(ReParse) = NumObjects(FirstParse)
        /\ NumBuildItems(ReParse) = NumBuildItems(FirstParse)
        /\ NumComponents(ReParse) = NumComponents(FirstParse)

\* C8, what the code does: the export is cancelled exactly when no build
\* item places an object with a mesh; otherwise the re-parse has one build
\* item per such build item, one object per object so placed, and per such
\* object its components that have a mesh.  The three counts are those of
\* the first parse when the package is fully placed and has a build item.
C8_CountsOfPlacedObjects ==
    RoundTripDone =>
        /\ (opResult = "CANCELLED") = (PlacedItems(FirstParse) = {})
        /\ opResult = "FINISHED" =>
              /\ NumBuildItems(ReParse) = Cardinality(PlacedItems(FirstParse))
              /\ DOMAIN ReParse.objects = PlacedObjects(FirstParse)
              /\ \A id \in PlacedObjects(FirstParse) :
                    Len(ReParse.objects[id].components)
                        = Cardinality(ResolvedComponents(FirstParse, id))
        /\ (FullyPlaced(FirstParse) /\ FirstParse.build_items # <<>>) =>
              /\ opResult = "FINISHED"
              /\ NumObjects(ReParse) = NumObjects(FirstParse)
              /\ NumBuildItems(ReParse) = NumBuildItems(FirstParse)
              /\ NumComponents(ReParse) = NumComponents(FirstParse)

\* a fully placed package of two objects and three components made the round
\* trip
C8_Witness ==
    /\ RoundTripped
    /\ FullyPlaced(FirstParse)
    /\ NumObjects(ReParse) = 2
    /\ NumBuildItems(ReParse) = 2
    /\ NumComponents(ReParse) = 3

\* the written model_settings.config and main model, as the tests read them
HasModelInstance ==
    \E p \in DOMAIN outFile.ms.plates : outFile.ms.plates[p].instances # <<>>

HasAssemble == outFile.ms.assemble # <<>>

HasApplication ==
    \E i \in DOMAIN outFile.main.metadata : outFile.main.metadata[i].name = "Application"

HasBambuNamespace == "BambuStudio" \in outFile.main.xmlns

\* the package has plates, and its plates and assemble items name objects of
\* the package only, every plate and the assemble section at least one
PlatesInUse(data) ==
    LET ids == {IntToStr(id) : id \in DOMAIN data.objects}
    IN  /\ data.ms_plates # <<>>
        /\ \A p \in DOMAIN data.ms_plates :
              /\ data.ms_plates[p].instances # <<>>
              /\ \A k \in DOMAIN data.ms_plates[p].instances :
                    Get(data.ms_plates[p].instances[k], "object_id", "") \in ids
        /\ data.ms_assemble # <<>>
        /\ \A a \in DOMAIN data.ms_assemble : data.ms_assemble[a].object_id \in ids

\* C9: for a fully placed package whose plates are in use, the exported
\* model_settings.config has as many <plate> sections as were parsed from
\* the source, with <model_instance> entries and an <assemble> section, and
\* the main model carries the Application entry and the BambuStudio
\* namespace.
C9_PlatesPreserved ==
    (RoundTripped /\ FullyPlaced(FirstParse) /\ PlatesInUse(FirstParse)) =>
        /\ Len(outFile.ms.plates) = Len(FirstParse.ms_plates)
        /\ HasModelInstance
        /\ HasAssemble
        /\ HasApplication
        /\ HasBambuNamespace

\* the ids of the exported assembly objects, as model_settings.config has them
ExportedIds == {OutObjects[i].id : i \in DOMAIN OutObjects}

\* the parsed plates that hold an instance of an exported object
LivePlates(data) ==
    {p \in DOMAIN data.ms_plates :
        \E k \in DOMAIN data.ms_plates[p].instances :
            Get(data.ms_plates[p].instances[k], "object_id", "") \in ExportedIds}

LiveAssemble(data) ==
    {a \in DOMAIN data.ms_assemble : data.ms_assemble[a].object_id \in ExportedIds}

\* the export finds the collection of the import: it carries model metadata
\* or project settings
CollectionFound(data) == data.metadata # <<>> \/ data.project_settings # ""

\* the stored plates are written rather than generated ones
PlatesKept(data) == CollectionFound(data) /\ LivePlates(data) # {}

\* C9, what the code does: the export writes the parsed plates that hold an instance of
\* an exported object, or one generated plate when there is none or the
\* package has neither model metadata nor project settings; <model_instance>
\* entries, the Application entry and the BambuStudio namespace are always
\* there; <assemble> is there unless stored plates are written and no parsed
\* assemble item names an exported object.  The plate count is the parsed
\* one, with <assemble>, when every parsed plate and some parsed assemble
\* item name an exported object and the collection is found.
C9_LivePlatesWritten ==
    RoundTripped =>
        /\ Len(outFile.ms.plates)
              = IF PlatesKept(FirstParse) THEN Cardinality(LivePlates(FirstParse)) ELSE 1
        /\ HasModelInstance
        /\ HasAssemble = (~PlatesKept(FirstParse) \/ LiveAssemble(FirstParse) # {})
        /\ HasApplication
        /\ HasBambuNamespace
        /\ (/\ CollectionFound(FirstParse)
            /\ FirstParse.ms_plates # <<>>
            /\ LivePlates(FirstParse) = DOMAIN FirstParse.ms_plates
            /\ LiveAssemble(FirstParse) # {}) =>
               /\ Len(outFile.ms.plates) = Len(FirstParse.ms_plates)
               /\ HasAssemble

\* a package of two plates made the round trip with both of them and its
\* assemble items
C9_Witness ==
    /\ RoundTripped
    /\ PlatesKept(FirstParse)
    /\ Len(FirstParse.ms_plates) = 2
    /\ Len(outFile.ms.plates) = 2
    /\ outFile.ms.plates[2].instances[1].identify_id = "121"
    /\ Len(outFile.ms.assemble) = 2
    /\ outFile.ms.assemble[1].offset = "0 0 0"

(***************************************************************************)
(* Claims about the written parts of one export.                           *)
(***************************************************************************)
\* the model metadata stored on the collection the export reads
StoredMetadata == Get(_find_bambu_collection(colls), "bambu_model_metadata", <<>>)

OutMetadata == outFile.main.metadata

\* the written metadata entries but the BambuStudio:3mfVersion one
OutMetadataButVersion ==
    SelectSeq(OutMetadata, LAMBDA e : e.name # "BambuStudio:3mfVersion")

StoredApplication == SelectSeq(StoredMetadata, LAMBDA e : e.name = "Application")

StoredOthers ==
    SelectSeq(StoredMetadata,
              LAMBDA e : e.name \notin {"Application", "BambuStudio:3mfVersion"})

\* the Application entry is there and first: the stored value, else the host's
ApplicationFirst ==
    /\ OutMetadata # <<>>
    /\ OutMetadata[1].name = "Application"
    /\ OutMetadata[1].value = IF StoredApplication # <<>>
                              THEN StoredApplication[1].value
                              ELSE HostVersion

EachKeyOnce ==
    \A i, j \in DOMAIN OutMetadata :
        i # j => OutMetadata[i].name # OutMetadata[j].name

GroupAssemblyId(g) ==
    IF "bambu_object_id" \in DOMAIN OutGroups[g].parent.props
    THEN OutGroups[g].parent.props["bambu_object_id"]
    ELSE Cardinality({h \in 1..g :
                         "bambu_object_id" \notin DOMAIN OutGroups[h].parent.props})

\* C12: an export of N groups writes N <object> entries and N <item>
\* entries, both in group order: the i-th object is the i-th group's, with
\* one component per child, and the i-th item references the i-th object.
C12_ObjectsAndItemsInGroupOrder ==
    Exported =>
        /\ Len(OutObjects) = Len(OutGroups)
        /\ Len(outFile.main.build) = Len(OutGroups)
        /\ \A i \in DOMAIN OutGroups :
              /\ OutObjects[i].id = IntToStr(GroupAssemblyId(i))
              /\ Len(OutObjects[i].components) = Len(OutGroups[i].children)
              /\ outFile.main.build[i].objectid = OutObjects[i].id

\* an export of two groups of different ids and sizes
C12_Witness ==
    /\ Exported
    /\ Len(OutGroups) = 2
    /\ Len(OutGroups[1].children) = 2
    /\ Len(OutGroups[2].children) = 1
    /\ OutObjects[1].id = "2"
    /\ outFile.main.build[2].objectid = "4"

\* the sub-model part of the g-th group, as the container names it
GroupPartName(g) == ZipName(SubPath(GroupAssemblyId(g)))

\* C13: an export of N groups writes N distinct sub-model parts
\* 3D/Objects/object_<id>.model, one per group with one mesh <object> per
\* child of the group, and the model relationships list each of the N paths
\* exactly once.
C13_OneSubModelPerGroup ==
    Exported =>
        /\ Cardinality(DOMAIN outFile.subs) = Len(OutGroups)
        /\ \A g \in DOMAIN OutGroups :
              /\ GroupPartName(g) \in DOMAIN outFile.subs
              /\ Len(outFile.subs[GroupPartName(g)]) = Len(OutGroups[g].children)
              /\ \A k \in DOMAIN outFile.subs[GroupPartName(g)] :
                    outFile.subs[GroupPartName(g)][k].mesh
        /\ Len(outFile.rels) = Len(OutGroups)
        /\ {ZipName(outFile.rels[i]) : i \in DOMAIN outFile.rels} = DOMAIN outFile.subs
        /\ \A i, j \in DOMAIN outFile.rels : i # j => outFile.rels[i] # outFile.rels[j]

(***************************************************************************)
(* Claims about the codecs (checked under SpecCodec).                      *)
(***************************************************************************)
Emitted == call.op = "emit" /\ call.done

\* each of & < > " replaced by its entity, character by character
EntityOf(ch) ==
    CASE ch = "&" -> <<"&", "a", "m", "p", ";">>
      [] ch = "<" -> <<"&", "l", "t", ";">>
      [] ch = ">" -> <<"&", "g", "t", ";">>
      [] ch = "\"" -> <<"&", "q", "u", "o", "t", ";">>
      [] OTHER -> <<ch>>

WithEntities(text) == Concat([i \in DOMAIN text |-> EntityOf(text[i])])

\* C14: every string the writer emits into the model parts and the two
\* configs, whichever field it belongs to (names, metadata, UUIDs,
\* transform strings, plate and filament fields), has each of & < > "
\* replaced by its XML entity.
C14_EveryFieldEscaped ==
    Emitted => call.out = WithEntities(call.arg.text)

\* The fields that go through _esc are written with entities.
C14_EscapedFieldsEscaped ==
    (Emitted /\ call.arg.field \in EscapedFields) =>
        call.out = WithEntities(call.arg.text)

\* The others are written as they are stored.
C14_RawFieldsVerbatim ==
    (Emitted /\ call.arg.field \in RawFields) => call.out = call.arg.text

C14_Witness ==
    /\ Emitted
    /\ call.arg.field = "main.object.UUID"
    /\ call.arg.text = <<"a", "&">>
    /\ call.out = <<"a", "&">>

Resolved == call.op = "extruder" /\ call.done

PartValueGiven == call.arg.part /\ call.arg.part_extruder \notin {NoElement, ""}

ObjectValueGiven == call.arg.entry /\ call.arg.object_extruder \notin {NoElement, ""}

\* C19: a part's extruder is the part-level value when model_settings gives
\* the part one (0 included), else the object-level extruder of its
\* assembly object, which is 1 when the object has no entry or no value; an
\* absent or empty part-level value is never an override.
C19_ExtruderPrecedence ==
    Resolved =>
        call.out = IF PartValueGiven THEN StrToInt(call.arg.part_extruder)
                   ELSE IF ObjectValueGiven THEN StrToInt(call.arg.object_extruder)
                   ELSE 1

C19_Witness ==
    /\ Resolved
    /\ call.arg.part_extruder = "0"
    /\ call.arg.object_extruder = "3"
    /\ call.out = 0

C19_WitnessNoOverride ==
    /\ Resolved
    /\ call.arg.part /\ call.arg.part_extruder = ""
    /\ call.arg.object_extruder = "3"
    /\ call.out = 3

Decoded == call.op = "transform" /\ call.done

\* exactly 12 numeric tokens
TwelveNumbers(transform_str) ==
    /\ transform_str.given
    /\ Len(transform_str.tokens) = TransformTokens
    /\ \A i \in DOMAIN transform_str.tokens : IsNumber(transform_str.tokens[i])

\* C20: parse_3mf_transform returns the identity matrix and does not raise
\* for every input that is missing, empty, whitespace only, or anything
\* other than exactly 12 numeric tokens.
C20_MalformedIsIdentity ==
    (Decoded /\ ~TwelveNumbers(call.arg.transform_str)) =>
        call.out = [raised |-> "", matrix |-> Identity4]

\* It does for every such input without a non-numeric token.
C20_NumericMalformedIsIdentity ==
    (Decoded /\ ~TwelveNumbers(call.arg.transform_str)
             /\ \A i \in DOMAIN call.arg.transform_str.tokens :
                    IsNumber(call.arg.transform_str.tokens[i])) =>
        call.out = [raised |-> "", matrix |-> Identity4]

C20_Witness ==
    /\ Decoded
    /\ Len(call.arg.transform_str.tokens) = TransformTokens
    /\ call.arg.transform_str.tokens[TransformTokens] = BadToken
    /\ call.out.raised = "ValueError"

(***************************************************************************)
(* Claims about one call over a container (checked under SpecContainer).   *)
(***************************************************************************)
Parsing == call.op = "parse"

Finished == call.pc \in {"returned", "raised"}

PartState(name) ==
    IF name \in DOMAIN call.arg.parts THEN call.arg.parts[name].state ELSE "absent"

ConfigNames == {ModelSettingsName, SliceInfoName, ProjectSettingsName}

\* what the assembly root of the container holds
RootAssembly == _parse_assembly(call.arg.parts[RootName].content)

\* the meshes of the sub-model parts that are there and can be parsed
ReadableMeshes ==
    UNION {{<<Path(1, name), obj_id>> :
               obj_id \in _parse_sub_model(call.arg.parts[name].content)} :
           name \in {n \in SubNames : PartState(n) = "ok"}}

ComponentsKept ==
    /\ DOMAIN call.data.objects = DOMAIN RootAssembly.objects
    /\ \A id \in DOMAIN RootAssembly.objects :
          call.data.objects[id].components = RootAssembly.objects[id].components

\* C15: when the sub-model part of a component is missing or cannot be
\* parsed, parse_3mf still returns; the component is in its object's
\* components list unchanged, it has no entry in meshes, and the meshes of
\* all other sub-models are there.
C15_UnresolvedComponentKept ==
    (/\ Parsing /\ Finished
     /\ call.arg.zip = "ok" /\ PartState(RootName) = "ok"
     /\ \A n \in ConfigNames : PartState(n) \in {"ok", "absent"}
     /\ \E n \in SubNames : PartState(n) # "ok") =>
        /\ call.pc = "returned"
        /\ ComponentsKept
        /\ call.data.meshes = ReadableMeshes

\* This is so when the part is missing.
C15_MissingPartKept ==
    (/\ Parsing /\ Finished
     /\ call.arg.zip = "ok" /\ PartState(RootName) = "ok"
     /\ \A n \in ConfigNames : PartState(n) \in {"ok", "absent"}
     /\ \E n \in SubNames : PartState(n) = "absent"
     /\ \A n \in SubNames : PartState(n) \in {"ok", "absent"}) =>
        /\ call.pc = "returned"
        /\ ComponentsKept
        /\ call.data.meshes = ReadableMeshes

C15_Witness ==
    /\ Parsing /\ call.pc = "raised" /\ call.raised = "ParseError"
    /\ PartState(RootName) = "ok"
    /\ \E n \in SubNames : PartState(n) = "damaged"
    /\ \A n \in ConfigNames : PartState(n) = "ok"

\* C16: parse_3mf fails, with MalformedAssemblyError, exactly when the
\* assembly root is not XML or has no <model> element; with a well-formed
\* root that has one it returns a result whatever the state of the
\* sub-model and config parts.
C16_FailsOnlyForMalformedRoot ==
    (Parsing /\ Finished /\ call.arg.zip = "ok") =>
        /\ PartState(RootName) \in {"ok", "no attribute"} => call.pc = "returned"
        /\ PartState(RootName) \in {"damaged", "other root"} =>
              call.pc = "raised" /\ call.raised = "MalformedAssemblyError"

\* With a root that is not XML the call does raise, a ParseError.
C16_DamagedRootRaises ==
    (Parsing /\ Finished /\ call.arg.zip = "ok" /\ PartState(RootName) = "damaged") =>
        call.pc = "raised" /\ call.raised = "ParseError"

C16_WitnessOtherRoot ==
    /\ Parsing /\ call.pc = "returned" /\ PartState(RootName) = "other root"

C16_WitnessDamagedConfig ==
    /\ Parsing /\ call.pc = "raised" /\ PartState(RootName) = "ok"
    /\ PartState(SliceInfoName) = "damaged"

Content(name) == call.arg.parts[name].content

\* C17: when any of the three config parts is absent from an otherwise
\* readable container, parse_3mf returns; model_settings is {}, ms_plates
\* and ms_assemble are [] without model_settings.config, filaments is {}
\* and plates is [] without slice_info.config, project_settings is ""
\* without project_settings.config, and every other field is what the
\* parts that are there give.
C17_AbsentConfigsGiveDefaults ==
    (/\ Parsing /\ Finished
     /\ call.arg.zip = "ok" /\ PartState(RootName) = "ok"
     /\ \A n \in SubNames : PartState(n) \in {"ok", "absent"}
     /\ \A n \in ConfigNames : PartState(n) \in {"ok", "absent"}) =>
        LET d == call.data
            ms == PartState(ModelSettingsName) = "ok"
            si == PartState(SliceInfoName) = "ok"
            ps == PartState(ProjectSettingsName) = "ok"
            settings == _parse_model_settings(Content(ModelSettingsName).objects)
        IN  /\ call.pc = "returned"
            /\ d.model_settings = IF ms THEN settings ELSE <<>>
            /\ d.ms_plates = IF ms THEN Content(ModelSettingsName).plates ELSE <<>>
            /\ d.ms_assemble = IF ms THEN Content(ModelSettingsName).assemble ELSE <<>>
            /\ d.filaments = IF si THEN _parse_slice_info(Content(SliceInfoName)).filaments
                             ELSE <<>>
            /\ d.plates = IF si THEN _parse_slice_info(Content(SliceInfoName)).plates
                          ELSE <<>>
            /\ d.project_settings = IF ps THEN Content(ProjectSettingsName) ELSE ""
            /\ d.metadata = RootAssembly.metadata
            /\ d.build_items = RootAssembly.build_items
            /\ d.meshes = ReadableMeshes
            /\ d.objects = IF ms THEN _enrich_objects(RootAssembly.objects, settings)
                           ELSE RootAssembly.objects

C17_Witness ==
    /\ Parsing /\ call.pc = "returned"
    /\ PartState(ModelSettingsName) = "ok"
    /\ PartState(SliceInfoName) = "absent"
    /\ PartState(ProjectSettingsName) = "absent"
    /\ call.data.filaments = <<>> /\ call.data.project_settings = ""
    /\ call.data.ms_plates # <<>>

\* C18: once parse_3mf or export_3mf has returned or raised, at whatever
\* step, the container handle it opened is closed; no part is read or
\* written through a handle that is not open, and the handle is closed
\* only by the exit of the call.
C18_HandleReleased ==
    /\ Finished => call.handle \in {"none", "closed"}
    /\ ~call.late
    /\ call.handle = "none" => call.reads = <<>>
    /\ call.handle = "closed" => call.pc \in {"return", "returned", "raised"}

C18_Witness ==
    /\ Parsing /\ call.pc = "raised" /\ call.raised = "ParseError"
    /\ Len(call.reads) > 1
    /\ call.handle = "closed"

C18_WitnessExport ==
    /\ call.op = "export" /\ call.pc = "raised"
    /\ Len(call.reads) > 1
    /\ call.handle = "closed"

(***************************************************************************)
(* Claims about the transform codec (checked under SpecCodec).             *)
(***************************************************************************)
DecodedBack == call.op = "matrix" /\ call.back # NoValue

EncodedBack ==
    call.op = "transform" /\ call.back # NoValue /\ TwelveNumbers(call.arg.transform_str)

\* decode(encode(M, s), 1/s) has M's entry at each of the 12 variable positions
MatrixRestored ==
    DecodedBack =>
        /\ call.back.raised = ""
        /\ \A r \in 1..3 : \A c \in 1..4 : call.back.matrix[r][c] = call.arg.mat[r][c]

Close(a, b) == a.m = b.m /\ a.x = b.x

\* a value a single-precision entry holds, or its nine-digit rendering
OnGrid(n) == Exact32(n) \/ (n.eps # 0 /\ n.tiny = 0)

\* the number the matrix is given for the i-th token
Given(i) ==
    IF i > 9 THEN Times(call.arg.transform_str.tokens[i], call.arg.scale)
    ELSE call.arg.transform_str.tokens[i]

C21_WitnessMatrix ==
    /\ DecodedBack
    /\ call.arg.scale = 3
    /\ call.arg.mat[1][4] = [Num(4, -3) EXCEPT !.eps = 1]
    /\ call.out[10] = [Num(4, 0) EXCEPT !.eps = 1]
    /\ call.back.matrix = call.arg.mat

\* C30: for a well-formed 12-token string, parse_3mf_transform puts token
\* 3*c + r at matrix[r][c] of the linear block, unscaled whatever the scale
\* is, the translation tokens times the scale in the fourth column and
\* 0 0 0 1 in the last row; matrix_to_3mf_transform writes the linear block
\* back column by column and scales only the three translation values.
C30_TransformLayout ==
    /\ (Decoded /\ TwelveNumbers(call.arg.transform_str)) =>
          LET t == call.arg.transform_str.tokens
              mat == call.out.matrix
          IN  /\ call.out.raised = ""
              /\ \A r \in 0..2 : \A c \in 0..2 :
                    mat[r + 1][c + 1] \in Float32(t[3 * c + r + 1])
              /\ \A r \in 0..2 :
                    mat[r + 1][4] \in Float32(Times(t[10 + r], call.arg.scale))
              /\ mat[4] = <<Num(0, 0), Num(0, 0), Num(0, 0), Num(1, 0)>>
    /\ (call.op = "matrix" /\ call.done) =>
          /\ Len(call.out) = TransformTokens
          /\ \A r \in 0..2 : \A c \in 0..2 :
                call.out[3 * c + r + 1] = Format9(call.arg.mat[r + 1][c + 1])
          /\ \A r \in 0..2 :
                call.out[10 + r] = Format9(Times(call.arg.mat[r + 1][4], call.arg.scale))

C30_Witness ==
    /\ Decoded /\ TwelveNumbers(call.arg.transform_str)
    /\ call.arg.scale = 3
    /\ call.arg.transform_str.tokens[4] = Num(4, 0)
    /\ call.out.matrix[1][2] = Num(4, 0)
    /\ call.out.matrix[2][1] = Num(2, 0)
    /\ call.out.matrix[3][4] = Num(12000, 0)

(***************************************************************************)
(* Claims about what parse_3mf returns (checked under SpecContainer).      *)
(***************************************************************************)
Returned == Parsing /\ call.pc = "returned"

\* every <filament> of slice_info.config, in file order
Declared ==
    Concat([p \in DOMAIN Content(SliceInfoName) |-> Content(SliceInfoName)[p].filaments])

\* C22: the filament table has exactly one entry per filament id declared in
\* any plate; for an id declared several times, in several plates or in one,
\* the entry has type, color and tray_info_idx of the first declaration in
\* file order; each plate's own filaments list holds all its declarations.
C22_FirstFilamentWins ==
    (Returned /\ PartState(SliceInfoName) = "ok") =>
        /\ DOMAIN call.data.filaments = {StrToInt(Declared[i].id) : i \in DOMAIN Declared}
        /\ \A i \in DOMAIN Declared :
              (\A j \in 1..(i - 1) : Declared[j].id # Declared[i].id) =>
                  call.data.filaments[StrToInt(Declared[i].id)] =
                      [id |-> StrToInt(Declared[i].id), type |-> Declared[i].type,
                       color |-> Declared[i].color,
                       tray_info_idx |-> Declared[i].tray_info_idx]
        /\ Len(call.data.plates) = Len(Content(SliceInfoName))
        /\ \A p \in DOMAIN call.data.plates :
              LET src == Content(SliceInfoName)[p].filaments
                  got == call.data.plates[p].filaments
              IN  /\ Len(got) = Len(src)
                  /\ \A k \in DOMAIN src : got[k] = [src[k] EXCEPT !.id = StrToInt(@)]

C22_Witness ==
    /\ Returned
    /\ DOMAIN call.data.filaments = {1, 2}
    /\ call.data.filaments[1].type = "PLA"
    /\ call.data.filaments[2].color = "#FF0000"
    /\ call.data.plates[2].filaments[1].type = "PETG"
    /\ Len(call.data.plates[2].filaments) = 3

\* C23: enrichment comes after the assembly and the model_settings parse.
\* An assembly object whose id has a model_settings entry gets the entry's
\* name and extruder, one without an entry keeps name "" and extruder 1;
\* id, uuid and components of every object stay as parsed, and no object
\* is added or removed.
C23_EnrichmentFrame ==
    /\ (Parsing /\ call.pc \in {"subs", "slice_info", "project_settings", "enrich"}) =>
          call.data.objects = RootAssembly.objects
    /\ Returned =>
          /\ DOMAIN call.data.objects = DOMAIN RootAssembly.objects
          /\ \A id \in DOMAIN RootAssembly.objects :
                LET obj == call.data.objects[id]
                    src == RootAssembly.objects[id]
                    ms == call.data.model_settings
                IN  /\ obj.id = src.id /\ obj.uuid = src.uuid
                    /\ obj.components = src.components
                    /\ DOMAIN obj = DOMAIN src
                    /\ IF id \in DOMAIN ms
                       THEN obj.name = ms[id].name /\ obj.extruder = ms[id].extruder
                       ELSE obj.name = "" /\ obj.extruder = 1

C23_Witness ==
    /\ Returned
    /\ DOMAIN call.data.model_settings = {2}
    /\ call.data.objects[2].name = "Clock" /\ call.data.objects[2].extruder = 3
    /\ call.data.objects[4].name = "" /\ call.data.objects[4].extruder = 1

\* how often a part was read through the handle
TimesRead(name) == Cardinality({i \in DOMAIN call.reads : call.reads[i] = name})

\* the sub-model paths the components of the assembly root name
ReferencedPaths ==
    UNION {{RootAssembly.objects[id].components[k].path :
               k \in DOMAIN RootAssembly.objects[id].components} :
           id \in DOMAIN RootAssembly.objects}

SubModelBuilt == call.op = "sub_model" /\ call.done

HasStoredId(k) == "bambu_part_id" \in DOMAIN call.arg[k].props

StoredPartIds == {call.arg[k].props["bambu_part_id"] : k \in {j \in DOMAIN call.arg : HasStoredId(j)}}

\* the ids given to the children before k that have no stored id
AllocatedBefore(k) == {call.out[j].id : j \in {i \in 1..(k - 1) : ~HasStoredId(i)}}

\* C25: in one sub-model a child with a stored bambu_part_id gets that id;
\* a child without one gets the smallest positive integer that is not the
\* stored part id of any child of the group, later ones included, and is
\* not an id allocated to an earlier child.  So an allocated id is never a
\* stored id or another allocated id.
C25_FirstFitPartIds ==
    SubModelBuilt =>
        /\ Len(call.out) = Len(call.arg)
        /\ \A k \in DOMAIN call.arg :
              IF HasStoredId(k)
              THEN call.out[k].id = call.arg[k].props["bambu_part_id"]
              ELSE /\ call.out[k].id > 0
                   /\ call.out[k].id \notin StoredPartIds \cup AllocatedBefore(k)
                   /\ \A n \in 1..(call.out[k].id - 1) :
                         n \in StoredPartIds \cup AllocatedBefore(k)

C25_Witness ==
    /\ SubModelBuilt
    /\ Len(call.arg) = 3
    /\ ~HasStoredId(1) /\ ~HasStoredId(2) /\ HasStoredId(3)
    /\ call.arg[3].props["bambu_part_id"] = 1
    /\ call.out[1].id = 2 /\ call.out[2].id = 3 /\ call.out[3].id = 1


(***************************************************************************)
(* Claims about the plates an export writes (checked under SpecRoundTrip). *)
(***************************************************************************)
\* the <model_instance> entries the export wrote, with their plate
WrittenInstances ==
    UNION {{outFile.ms.plates[p].instances[k] :
               k \in DOMAIN outFile.ms.plates[p].instances} :
           p \in DOMAIN outFile.ms.plates}

WrittenAssemble == {outFile.ms.assemble[a] : a \in DOMAIN outFile.ms.assemble}

\* C28: when the collection carries a non-empty stored plate list or
\* assemble list, every <model_instance> and every <assemble_item> the
\* export writes is a stored one: no generated default entry is written.
C28_DefaultsOnlyWithoutStoredData ==
    (Exported /\ (StoredPlates # <<>> \/ StoredAssemble # <<>>)) =>
        /\ WrittenInstances
              \subseteq UNION {{StoredPlates[p].instances[k] :
                                   k \in DOMAIN StoredPlates[p].instances} :
                               p \in DOMAIN StoredPlates}
        /\ WrittenAssemble \subseteq {StoredAssemble[a] : a \in DOMAIN StoredAssemble}

\* C29: after an export every group is placed on a plate: some written
\* <model_instance> has the group's assembly id as its object_id.
C29_EveryGroupOnAPlate ==
    Exported =>
        \A g \in DOMAIN OutGroups :
            \E inst \in WrittenInstances :
                Get(inst, "object_id", "") = IntToStr(GroupAssemblyId(g))

\* the slice plates stored on the collection the export reads
StoredSlicePlates == Get(_find_bambu_collection(colls), "bambu_plates", <<>>)

\* C24: an export of N groups with no stored plate, assemble or slice-plate
\* data writes one model_settings plate with index 1 and N model_instance
\* entries, the i-th (from 0, in group order) with the i-th group's assembly
\* id, instance_id "0" and identify_id i, N assemble items with the same
\* object ids, and one slice_info plate with index 1 that lists the N
\* groups by name in group order with the same identify_id i.
C24_GeneratedPlates ==
    (/\ Exported
     /\ StoredPlates = <<>> /\ StoredAssemble = <<>> /\ StoredSlicePlates = <<>>) =>
        /\ Len(outFile.ms.plates) = 1
        /\ outFile.ms.plates[1].metadata["index"] = "1"
        /\ Len(outFile.ms.plates[1].instances) = Len(OutGroups)
        /\ Len(outFile.ms.assemble) = Len(OutGroups)
        /\ Len(outFile.slice) = 1
        /\ outFile.slice[1].metadata["index"] = "1"
        /\ Len(outFile.slice[1].objects) = Len(OutGroups)
        /\ \A i \in DOMAIN OutGroups :
              /\ outFile.ms.plates[1].instances[i]
                    = [object_id |-> IntToStr(GroupAssemblyId(i)),
                       instance_id |-> "0",
                       identify_id |-> IntToStr(i - 1)]
              /\ outFile.ms.assemble[i].object_id = IntToStr(GroupAssemblyId(i))
              /\ outFile.slice[1].objects[i].name = OutGroups[i].parent.name
              /\ outFile.slice[1].objects[i].identify_id = IntToStr(i - 1)

\* a scene of two new meshes and nothing imported was exported: the second
\* group has identify_id 1 in both configs
C24_Witness ==
    /\ Exported
    /\ colls = <<>>
    /\ Len(OutGroups) = 2
    /\ OutGroups[2].parent.name = "Cube.001"
    /\ outFile.ms.plates[1].instances[2].object_id = "2"
    /\ outFile.ms.plates[1].instances[2].identify_id = "1"
    /\ outFile.ms.assemble[2].object_id = "2"
    /\ outFile.slice[1].objects[1].name = "Cube"
    /\ outFile.slice[1].objects[2] = [identify_id |-> "1", name |-> "Cube.001",
                                      skipped |-> "false"]

\* the k-th child of the g-th group, as model_settings.config describes it
PartOfChild(g, k) ==
    LET child == OutGroups[g].children[k]
    IN  [name |-> IF "bambu_part_name" \in DOMAIN child.props
                  THEN child.props["bambu_part_name"] ELSE child.name,
         subtype |-> IF "bambu_subtype" \in DOMAIN child.props
                     THEN child.props["bambu_subtype"] ELSE "normal_part",
         extruder |-> IF "bambu_extruder" \in DOMAIN child.props
                      THEN <<child.props["bambu_extruder"]>> ELSE <<>>]

\* C27: for every group, the <object> id in model_settings.config is the
\* group's assembly id; its k-th <part> id is the objectid of the k-th
\* <component> of the group's assembly object in the main model and the id
\* of the k-th <object> in the group's sub-model part, and the part carries
\* the name, subtype and extruder of the k-th child.
C27_PartsAligned ==
    Exported =>
        /\ Len(outFile.ms.objects) = Len(OutGroups)
        /\ \A g \in DOMAIN OutGroups :
              /\ outFile.ms.objects[g].id = IntToStr(GroupAssemblyId(g))
              /\ Len(outFile.ms.objects[g].parts) = Len(OutGroups[g].children)
              /\ \A k \in DOMAIN OutGroups[g].children :
                    LET part == outFile.ms.objects[g].parts[k]
                    IN  /\ part.id = OutObjects[g].components[k].objectid
                        /\ k \in DOMAIN outFile.subs[GroupPartName(g)]
                        /\ part.id = outFile.subs[GroupPartName(g)][k].id
                        /\ [name |-> part.name, subtype |-> part.subtype,
                            extruder |-> part.extruder] = PartOfChild(g, k)

=============================================================================
